---- MODULE Spec2Model ----
(***************************************************************************)
(* HotelVault: the in-memory entity store (server/storage.ts, MemStorage), *)
(* the REST routes in front of it (server/routes.ts) and the check-in page *)
(* that drives the booking/room pair (client/src/pages/checkin.tsx).       *)
(*                                                                         *)
(* Values.  A UUID is modelled by the ordinal of the randomUUID() call     *)
(* that produced it (1, 2, 3, ...), so a fresh id is never one handed out  *)
(* before.  Dates are integer ticks, DayLen ticks to a local day.  JSON    *)
(* strings are TLA+ strings; "null" stands for null, "undefined" for a key *)
(* that is not there, and NotAString for a JSON value of the wrong type.   *)
(* Entities are records; only the columns the routes, queries and pages    *)
(* read are kept, the object spread treats every other column alike.       *)
(***************************************************************************)
EXTENDS Integers, Sequences, FiniteSets, TLC

VARIABLES
    rooms,                \* MemStorage.rooms               : id -> Room
    guests,               \* MemStorage.guests              : id -> Guest
    bookings,             \* MemStorage.bookings            : id -> Booking
    staff,                \* MemStorage.staff               : id -> Staff
    maintenanceRequests,  \* MemStorage.maintenanceRequests : id -> MaintenanceRequest
    payments,             \* MemStorage.payments            : id -> Payment
    uuidCount,            \* number of randomUUID() calls made so far
    now,                  \* the wall clock read by new Date()
    ret,                  \* outcome of the last storage call: value returned or error thrown
    response,             \* the last HTTP response written by a route handler
    call,                 \* the last request or storage call, with the target as it was before
    ops,                  \* number of create calls and successful update calls so far
    inflight,             \* requests sent by the pages and not yet answered
    answered,             \* requests that were answered (or lost), in the order of completion
    todaysArrivals,       \* checkin page: cached result of GET /api/bookings/arrivals/today
    todaysDepartures,     \* checkin page: cached result of GET /api/bookings/departures/today
    selectedBooking,      \* checkin page: useState selectedBooking
    dialog,               \* checkin page: which confirmation dialog is open
    hotelSettings,        \* MemStorage.hotelSettings       : id -> HotelSetting
    awaiting,             \* updateHotelSetting calls suspended at their await, oldest first
    guestCommunications,  \* MemStorage.guestCommunications : id -> GuestCommunication
    stripe,               \* routes.ts: the Stripe client, or null without STRIPE_SECRET_KEY
    paymentIntents        \* the calls made to stripe.paymentIntents.create, oldest first

collections == <<rooms, guests, bookings, staff, maintenanceRequests, payments>>
storeVars == <<rooms, guests, bookings, staff, maintenanceRequests, payments, uuidCount>>
netVars == <<inflight, answered>>
pageVars == <<todaysArrivals, todaysDepartures, selectedBooking, dialog>>
settingVars == <<hotelSettings, awaiting>>
serviceVars == <<guestCommunications, stripe, paymentIntents>>
vars == <<rooms, guests, bookings, staff, maintenanceRequests, payments, uuidCount,
          now, ret, response, call, ops, inflight, answered,
          todaysArrivals, todaysDepartures, selectedBooking, dialog,
          hotelSettings, awaiting, guestCommunications, stripe, paymentIntents>>

(***************************************************************************)
(* Bounds of the model.                                                    *)
(***************************************************************************)
MaxOps == 3          \* create calls and successful update calls explored
MaxRequests == 4     \* requests the pages send in one exploration
MaxRooms == 4        \* rooms in a list handed to the dashboard
MaxBookings == 3     \* bookings in a list handed to the dashboard
MaxOthers == 1       \* updates other clients make while the check-in page is open

(***************************************************************************)
(* Values.                                                                 *)
(***************************************************************************)
DayLen == 2                       \* ticks in one local day
Null == "null"
Undefined == "undefined"
NotAString == "<number>"          \* a JSON number where the column is text
Absent == [undefined |-> TRUE]    \* what Map.get returns on a miss
NoId == 99                        \* an id no randomUUID() call of an exploration returns

RoomStatuses == {"available", "occupied", "pending", "maintenance"}
BookingStatuses == {"confirmed", "checked_in", "checked_out", "cancelled"}

\* obj[k], or undefined when the object has no such key
Get(obj, k) == IF k \in DOMAIN obj THEN obj[k] ELSE Undefined

\* the object with only the keys in ks (zod's default: unknown keys are stripped)
Pick(obj, ks) == [k \in (DOMAIN obj) \cap ks |-> obj[k]]

\* { ...existing, ...updates }: the mutant keeps the existing value of a key
\* that both objects have
MergeExistingWins(existing, updates) ==
    [k \in (DOMAIN existing) \cup (DOMAIN updates) |->
        IF k \in DOMAIN existing THEN existing[k] ELSE updates[k]]

\* { ...existing, ...updates }
Merge(existing, updates) ==
    [k \in (DOMAIN existing) \cup (DOMAIN updates) |->
        IF k \in DOMAIN updates THEN updates[k] ELSE existing[k]]

\* Map.prototype.set(id, value)
MapSet(map, id, value) ==
    [k \in (DOMAIN map) \cup {id} |-> IF k = id THEN value ELSE map[k]]

\* Array.from(map.values()): the values in insertion order, which is the order
\* of the ids, since ids are handed out in increasing order and set() on an
\* existing key keeps its place
RECURSIVE IdsInOrder(_)
IdsInOrder(S) ==
    IF S = {} THEN <<>>
    ELSE LET m == CHOOSE x \in S : \A y \in S : x <= y
         IN <<m>> \o IdsInOrder(S \ {m})

\* mutant: the newest entry first
ValuesNewestFirst(map) ==
    LET n == Cardinality(DOMAIN map)
    IN [i \in 1..n |-> map[IdsInOrder(DOMAIN map)[n + 1 - i]]]

Values(map) == [i \in 1..Cardinality(DOMAIN map) |-> map[IdsInOrder(DOMAIN map)[i]]]

\* Array.prototype.find, given the elements that pass the test in their order:
\* the first of them, or undefined
Find(hits) == IF hits = <<>> THEN Absent ELSE Head(hits)

\* mutant: the last element that passes the test
FindLast(hits) == IF hits = <<>> THEN Absent ELSE hits[Len(hits)]

\* randomUUID()
randomUUID == uuidCount + 1

\* what a storage method hands back
Return(value) == [threw |-> FALSE, value |-> value]
Throw(message) == [threw |-> TRUE, message |-> message]

\* new Date() with setHours(0, 0, 0, 0): local midnight of the day of t
Midnight(t) == (t \div DayLen) * DayLen

\* A date held by an entity is a Date object, written as its tick t, or, when
\* it came in a JSON body that no schema parsed, the ISO string of the tick,
\* written IsoBase + t.
IsoBase == 1000
IsoString(t) == IsoBase + t
IsString(v) == v >= IsoBase

\* new Date(value): a copy of a Date, the instant an ISO string names
newDate(v) == IF IsString(v) THEN v - IsoBase ELSE v

\* value >= date and value < date for a Date on the right: a Date on the left
\* is compared by its time, an ISO string is converted to the number NaN and
\* the comparison is false
NotBefore(v, date) == ~IsString(v) /\ v >= date
Before(v, date) == ~IsString(v) /\ v < date

(***************************************************************************)
(* server/storage.ts: MemStorage.  Every method but updateHotelSetting is   *)
(* an async function with no await in its body, so its reads and its write *)
(* are one step.  Each definition below is one method: it says what the    *)
(* method does to every collection and what it returns or throws (ret').   *)
(***************************************************************************)
NullDate == -1                    \* null in a timestamp column
InitialRooms == 5                 \* sampleRooms.length

\* initializeData(): the five sample rooms, in the order they are inserted
sampleRooms(t) ==
    <<[id |-> 1, number |-> "101", status |-> "available", notes |-> Null, lastCleaned |-> t],
      [id |-> 2, number |-> "102", status |-> "occupied", notes |-> Null, lastCleaned |-> t],
      [id |-> 3, number |-> "103", status |-> "pending", notes |-> Null, lastCleaned |-> t],
      [id |-> 4, number |-> "203", status |-> "available", notes |-> Null, lastCleaned |-> t],
      [id |-> 5, number |-> "501", status |-> "available", notes |-> Null, lastCleaned |-> t]>>

\* ---- rooms
getRooms == Values(rooms)

\* mutant: a miss answered with the first room
getRoomDefaultsOnMiss(id) == IF id \in DOMAIN rooms THEN rooms[id] ELSE rooms[1]

getRoom(id) == IF id \in DOMAIN rooms THEN rooms[id] ELSE Absent

\* mutant: the room with that number that was stored last
getRoomByNumberLast(number) ==
    FindLast(SelectSeq(Values(rooms), LAMBDA room : room.number = number))

getRoomByNumber(number) ==
    Find(SelectSeq(Values(rooms), LAMBDA room : room.number = number))

createRoom(insertRoom) ==
    LET id == randomUUID
        room == Merge(insertRoom, [id |-> id, lastCleaned |-> NullDate])
    IN /\ rooms' = MapSet(rooms, id, room)
       /\ uuidCount' = uuidCount + 1
       /\ ret' = Return(room)
       /\ UNCHANGED <<guests, bookings, staff, maintenanceRequests, payments>>

\* mutant: an update of an id that is not stored inserts the partial under it
updateRoomUpserts(id, updates) ==
    /\ LET updatedRoom == IF id \in DOMAIN rooms THEN Merge(rooms[id], updates) ELSE updates
       IN /\ rooms' = MapSet(rooms, id, updatedRoom)
          /\ ret' = Return(updatedRoom)
    /\ UNCHANGED <<guests, bookings, staff, maintenanceRequests, payments, uuidCount>>

\* mutant: the stored record is replaced by the partial (only the id is kept)
updateRoomReplaces(id, updates) ==
    /\ IF id \notin DOMAIN rooms
       THEN ret' = Throw("Room not found") /\ UNCHANGED rooms
       ELSE LET updatedRoom == Merge([id |-> rooms[id].id], updates)
            IN /\ rooms' = MapSet(rooms, id, updatedRoom)
               /\ ret' = Return(updatedRoom)
    /\ UNCHANGED <<guests, bookings, staff, maintenanceRequests, payments, uuidCount>>

\* mutant: a room taken out of service is removed from the store
updateRoomRemoves(id, updates) ==
    /\ IF id \notin DOMAIN rooms
       THEN ret' = Throw("Room not found") /\ UNCHANGED rooms
       ELSE IF Get(updates, "status") = "maintenance"
            THEN /\ rooms' = [r \in DOMAIN rooms \ {id} |-> rooms[r]]
                 /\ ret' = Return(rooms[id])
            ELSE /\ rooms' = MapSet(rooms, id, Merge(rooms[id], updates))
                 /\ ret' = Return(rooms'[id])
    /\ UNCHANGED <<guests, bookings, staff, maintenanceRequests, payments, uuidCount>>

updateRoom(id, updates) ==
    /\ IF id \notin DOMAIN rooms
       THEN /\ ret' = Throw("Room not found")
            /\ UNCHANGED rooms
       ELSE LET updatedRoom == Merge(rooms[id], updates)
            IN /\ rooms' = MapSet(rooms, id, updatedRoom)
               /\ ret' = Return(updatedRoom)
    /\ UNCHANGED <<guests, bookings, staff, maintenanceRequests, payments, uuidCount>>

updateRoomStatus(id, status) == updateRoom(id, [status |-> status])

\* ---- guests
getGuest(id) == IF id \in DOMAIN guests THEN guests[id] ELSE Absent

createGuest(insertGuest) ==
    LET id == randomUUID
        guest == Merge(insertGuest, [id |-> id, createdAt |-> now])
    IN /\ guests' = MapSet(guests, id, guest)
       /\ uuidCount' = uuidCount + 1
       /\ ret' = Return(guest)
       /\ UNCHANGED <<rooms, bookings, staff, maintenanceRequests, payments>>

updateGuest(id, updates) ==
    /\ IF id \notin DOMAIN guests
       THEN /\ ret' = Throw("Guest not found")
            /\ UNCHANGED guests
       ELSE LET updatedGuest == Merge(guests[id], updates)
            IN /\ guests' = MapSet(guests, id, updatedGuest)
               /\ ret' = Return(updatedGuest)
    /\ UNCHANGED <<rooms, bookings, staff, maintenanceRequests, payments, uuidCount>>

\* ---- bookings
getBooking(id) == IF id \in DOMAIN bookings THEN bookings[id] ELSE Absent

getBookings == Values(bookings)

\* mutant: any stay that overlaps the range
getBookingsByDateRangeOverlap(checkIn, checkOut) ==
    SelectSeq(Values(bookings),
              LAMBDA booking : booking.checkIn <= checkOut /\ booking.checkOut >= checkIn)

getBookingsByDateRange(checkIn, checkOut) ==
    SelectSeq(Values(bookings),
              LAMBDA booking : booking.checkIn >= checkIn /\ booking.checkOut <= checkOut)

\* mutant: midnight tomorrow counted as today
getTodaysArrivalsClosed ==
    LET today == Midnight(now)
        tomorrow == today + DayLen
    IN SelectSeq(Values(bookings),
                 LAMBDA booking : booking.checkIn >= today /\ booking.checkIn <= tomorrow)

getTodaysArrivals ==
    LET today == Midnight(now)
        tomorrow == today + DayLen
    IN SelectSeq(Values(bookings),
                 LAMBDA booking : /\ NotBefore(booking.checkIn, today)
                                  /\ Before(booking.checkIn, tomorrow))

\* mutant: the stays that begin today
getTodaysDeparturesByCheckIn ==
    LET today == Midnight(now)
        tomorrow == today + DayLen
    IN SelectSeq(Values(bookings),
                 LAMBDA booking : booking.checkIn >= today /\ booking.checkIn < tomorrow)

getTodaysDepartures ==
    LET today == Midnight(now)
        tomorrow == today + DayLen
    IN SelectSeq(Values(bookings),
                 LAMBDA booking : booking.checkOut >= today /\ booking.checkOut < tomorrow)

createBooking(insertBooking) ==
    LET id == randomUUID
        booking == Merge(insertBooking,
                         [id |-> id, createdAt |-> now, cloudbedsSyncId |-> Null])
    IN /\ bookings' = MapSet(bookings, id, booking)
       /\ uuidCount' = uuidCount + 1
       /\ ret' = Return(booking)
       /\ UNCHANGED <<rooms, guests, staff, maintenanceRequests, payments>>

\* mutant: a check-in carried over to the referenced room
updateBookingPropagates(id, updates) ==
    IF id \in DOMAIN bookings /\ Get(updates, "status") = "checked_in"
       /\ bookings[id].roomId \in DOMAIN rooms
    THEN /\ bookings' = MapSet(bookings, id, Merge(bookings[id], updates))
         /\ rooms' = MapSet(rooms, bookings[id].roomId,
                            Merge(rooms[bookings[id].roomId], [status |-> "occupied"]))
         /\ ret' = Return(Merge(bookings[id], updates))
         /\ UNCHANGED <<guests, staff, maintenanceRequests, payments, uuidCount>>
    ELSE /\ IF id \notin DOMAIN bookings
            THEN ret' = Throw("Booking not found") /\ UNCHANGED bookings
            ELSE /\ bookings' = MapSet(bookings, id, Merge(bookings[id], updates))
                 /\ ret' = Return(Merge(bookings[id], updates))
         /\ UNCHANGED <<rooms, guests, staff, maintenanceRequests, payments, uuidCount>>

\* the transitions of the booking life cycle: confirmed -> checked_in ->
\* checked_out, and cancelled from confirmed or checked_in
LifeCycle ==
    { <<"confirmed", "checked_in">>, <<"checked_in", "checked_out">>,
      <<"confirmed", "cancelled">>, <<"checked_in", "cancelled">> }

\* mutant: a status change outside the life cycle is refused
updateBookingValidated(id, updates) ==
    /\ IF id \notin DOMAIN bookings
       THEN ret' = Throw("Booking not found") /\ UNCHANGED bookings
       ELSE IF "status" \in DOMAIN updates
               /\ <<Get(bookings[id], "status"), updates.status>> \notin LifeCycle
            THEN ret' = Throw("Invalid status transition") /\ UNCHANGED bookings
            ELSE /\ bookings' = MapSet(bookings, id, Merge(bookings[id], updates))
                 /\ ret' = Return(Merge(bookings[id], updates))
    /\ UNCHANGED <<rooms, guests, staff, maintenanceRequests, payments, uuidCount>>

\* mutant: a cancelled booking is removed from the collection
updateBookingDeletesCancelled(id, updates) ==
    /\ IF id \notin DOMAIN bookings
       THEN ret' = Throw("Booking not found") /\ UNCHANGED bookings
       ELSE /\ ret' = Return(Merge(bookings[id], updates))
            /\ bookings' = IF Get(updates, "status") = "cancelled"
                           THEN [k \in (DOMAIN bookings) \ {id} |-> bookings[k]]
                           ELSE MapSet(bookings, id, Merge(bookings[id], updates))
    /\ UNCHANGED <<rooms, guests, staff, maintenanceRequests, payments, uuidCount>>

updateBooking(id, updates) ==
    /\ IF id \notin DOMAIN bookings
       THEN /\ ret' = Throw("Booking not found")
            /\ UNCHANGED bookings
       ELSE LET updatedBooking == Merge(bookings[id], updates)
            IN /\ bookings' = MapSet(bookings, id, updatedBooking)
               /\ ret' = Return(updatedBooking)
    /\ UNCHANGED <<rooms, guests, staff, maintenanceRequests, payments, uuidCount>>

\* ---- staff
createStaffMember(insertStaff) ==
    LET id == randomUUID
        staffMember == Merge(insertStaff, [id |-> id])
    IN /\ staff' = MapSet(staff, id, staffMember)
       /\ uuidCount' = uuidCount + 1
       /\ ret' = Return(staffMember)
       /\ UNCHANGED <<rooms, guests, bookings, maintenanceRequests, payments>>

updateStaffMember(id, updates) ==
    /\ IF id \notin DOMAIN staff
       THEN /\ ret' = Throw("Staff member not found")
            /\ UNCHANGED staff
       ELSE LET updatedStaffMember == Merge(staff[id], updates)
            IN /\ staff' = MapSet(staff, id, updatedStaffMember)
               /\ ret' = Return(updatedStaffMember)
    /\ UNCHANGED <<rooms, guests, bookings, maintenanceRequests, payments, uuidCount>>

\* ---- maintenance requests
getPendingMaintenanceRequests ==
    SelectSeq(Values(maintenanceRequests), LAMBDA request : request.status = "pending")

createMaintenanceRequest(insertRequest) ==
    LET id == randomUUID
        request == Merge(insertRequest,
                         [id |-> id, createdAt |-> now, completedAt |-> NullDate])
    IN /\ maintenanceRequests' = MapSet(maintenanceRequests, id, request)
       /\ uuidCount' = uuidCount + 1
       /\ ret' = Return(request)
       /\ UNCHANGED <<rooms, guests, bookings, staff, payments>>

updateMaintenanceRequest(id, updates) ==
    /\ IF id \notin DOMAIN maintenanceRequests
       THEN /\ ret' = Throw("Maintenance request not found")
            /\ UNCHANGED maintenanceRequests
       ELSE LET updatedRequest == Merge(maintenanceRequests[id], updates)
            IN /\ maintenanceRequests' = MapSet(maintenanceRequests, id, updatedRequest)
               /\ ret' = Return(updatedRequest)
    /\ UNCHANGED <<rooms, guests, bookings, staff, payments, uuidCount>>

\* ---- payments
createPayment(insertPayment) ==
    LET id == randomUUID
        payment == Merge(insertPayment,
                         [id |-> id, createdAt |-> now, processedAt |-> NullDate,
                          stripePaymentId |-> Null])
    IN /\ payments' = MapSet(payments, id, payment)
       /\ uuidCount' = uuidCount + 1
       /\ ret' = Return(payment)
       /\ UNCHANGED <<rooms, guests, bookings, staff, maintenanceRequests>>

updatePayment(id, updates) ==
    /\ IF id \notin DOMAIN payments
       THEN /\ ret' = Throw("Payment not found")
            /\ UNCHANGED payments
       ELSE LET updatedPayment == Merge(payments[id], updates)
            IN /\ payments' = MapSet(payments, id, updatedPayment)
               /\ ret' = Return(updatedPayment)
    /\ UNCHANGED <<rooms, guests, bookings, staff, maintenanceRequests, uuidCount>>

\* ---- hotel settings
getHotelSettings == Values(hotelSettings)

getHotelSetting(key) ==
    Find(SelectSeq(Values(hotelSettings), LAMBDA setting : setting.key = key))

\* updateHotelSetting up to its await: getHotelSetting has run and the call
\* is suspended with what it found
updateHotelSettingBegin(key, value) ==
    /\ awaiting' = Append(awaiting, [key |-> key, value |-> value,
                                     existing |-> getHotelSetting(key)])
    /\ UNCHANGED <<storeVars, hotelSettings, ret>>

\* mutant: every call stores a new setting
updateHotelSettingAlwaysInserts ==
    LET c == Head(awaiting)
        id == randomUUID
        setting == [id |-> id, key |-> c.key, value |-> c.value, updatedAt |-> now]
    IN /\ awaiting # <<>>
       /\ awaiting' = Tail(awaiting)
       /\ hotelSettings' = MapSet(hotelSettings, id, setting)
       /\ uuidCount' = uuidCount + 1
       /\ ret' = Return(setting)
       /\ UNCHANGED collections

\* updateHotelSetting after its await: the oldest suspended call resumes
updateHotelSettingResume ==
    LET c == Head(awaiting)
    IN /\ awaiting # <<>>
       /\ awaiting' = Tail(awaiting)
       /\ IF c.existing # Absent
          THEN LET updated == Merge(c.existing, [value |-> c.value, updatedAt |-> now])
               IN /\ hotelSettings' = MapSet(hotelSettings, c.existing.id, updated)
                  /\ ret' = Return(updated)
                  /\ UNCHANGED uuidCount
          ELSE LET id == randomUUID
                   setting == [id |-> id, key |-> c.key, value |-> c.value,
                               updatedAt |-> now]
               IN /\ hotelSettings' = MapSet(hotelSettings, id, setting)
                  /\ uuidCount' = uuidCount + 1
                  /\ ret' = Return(setting)
       /\ UNCHANGED collections

(***************************************************************************)
(* shared/schema.ts: the insert schemas (createInsertSchema(...).omit).    *)
(* A schema is the columns it keeps, those a body must have (notNull and   *)
(* no default), its text columns and those of them that may be null.       *)
(* parse throws on a missing required column and on a value of the wrong   *)
(* type, and returns the body without the keys the schema does not have.   *)
(***************************************************************************)
insertRoomSchema ==
    [keys |-> {"number", "status", "notes"}, required |-> {"number"},
     text |-> {"number", "status", "notes"}, nullable |-> {"notes"}]

insertGuestSchema ==
    [keys |-> {"firstName", "email"}, required |-> {"firstName", "email"},
     text |-> {"firstName", "email"}, nullable |-> {}]

insertBookingSchema ==
    [keys |-> {"roomId", "guestId", "checkIn", "checkOut", "totalAmount", "status"},
     required |-> {"roomId", "guestId", "checkIn", "checkOut", "totalAmount"},
     text |-> {"status"}, nullable |-> {}]

insertStaffSchema ==
    [keys |-> {"employeeId", "isActive"}, required |-> {"employeeId"},
     text |-> {"employeeId"}, nullable |-> {}]

insertMaintenanceRequestSchema ==
    [keys |-> {"roomId", "type", "status"}, required |-> {"roomId", "type"},
     text |-> {"type", "status"}, nullable |-> {}]

insertPaymentSchema ==
    [keys |-> {"bookingId", "amount", "method", "status"},
     required |-> {"bookingId", "amount", "method"},
     text |-> {"method", "status"}, nullable |-> {}]

\* whether every column of the body that the schema knows has a value of its type
TypesOk(schema, body) ==
    \A k \in (DOMAIN body) \cap schema.text :
        /\ body[k] # NotAString
        /\ body[k] = Null => k \in schema.nullable

\* schema.parse(body) does not throw
Accepts(schema, body) ==
    /\ schema.required \subseteq DOMAIN body
    /\ TypesOk(schema, body)

\* schema.parse(body), when it does not throw
Parse(schema, body) == Pick(body, schema.keys)

(***************************************************************************)
(* server/routes.ts: one definition per route handler, the whole handler:  *)
(* validation where the handler has it, the storage call, and the response *)
(* written in the try block or in the catch block.                         *)
(***************************************************************************)
Json(status, body) == [status |-> status, body |-> body]
Message(m) == [message |-> m]

\* res.json(value) after a storage call that may have thrown into catch (500)
AnswerUpdate == response' = IF ret'.threw THEN Json(500, Message(ret'.message))
                            ELSE Json(200, ret'.value)

\* the catch block of a POST route: every error is answered 400
Reject400 == /\ ret' = Throw("ZodError")
             /\ response' = Json(400, Message("ZodError"))
             /\ UNCHANGED storeVars

\* app.get("/api/rooms/:id")
GetRoom(id) ==
    LET room == getRoom(id)
    IN /\ ret' = Return(room)
       /\ response' = IF room = Absent THEN Json(404, Message("Room not found"))
                                       ELSE Json(200, room)
       /\ UNCHANGED storeVars

\* app.post("/api/rooms")
PostRooms(body) ==
    IF Accepts(insertRoomSchema, body)
    THEN createRoom(Parse(insertRoomSchema, body)) /\ response' = Json(201, ret'.value)
    ELSE Reject400

\* app.patch("/api/rooms/:id")
PatchRoom(id, body) == updateRoom(id, body) /\ AnswerUpdate

\* mutant: the handler merges the whole body
PatchRoomStatusMergesBody(id, body) == updateRoom(id, body) /\ AnswerUpdate

\* mutant: the handler reads a key the page does not send
PatchRoomStatusWrongKey(id, body) == updateRoomStatus(id, Get(body, "state")) /\ AnswerUpdate

\* app.patch("/api/rooms/:id/status")
PatchRoomStatus(id, body) == updateRoomStatus(id, Get(body, "status")) /\ AnswerUpdate

\* app.post("/api/guests")
PostGuests(body) ==
    IF Accepts(insertGuestSchema, body)
    THEN createGuest(Parse(insertGuestSchema, body)) /\ response' = Json(201, ret'.value)
    ELSE Reject400

\* app.patch("/api/guests/:id")
PatchGuest(id, body) == updateGuest(id, body) /\ AnswerUpdate

\* app.post("/api/bookings")
PostBookings(body) ==
    IF Accepts(insertBookingSchema, body)
    THEN createBooking(Parse(insertBookingSchema, body)) /\ response' = Json(201, ret'.value)
    ELSE Reject400

\* app.patch("/api/bookings/:id")
PatchBooking(id, body) == updateBooking(id, body) /\ AnswerUpdate

\* app.post("/api/staff")
PostStaff(body) ==
    IF Accepts(insertStaffSchema, body)
    THEN createStaffMember(Parse(insertStaffSchema, body)) /\ response' = Json(201, ret'.value)
    ELSE Reject400

\* app.patch("/api/staff/:id")
PatchStaff(id, body) == updateStaffMember(id, body) /\ AnswerUpdate

\* app.post("/api/maintenance")
PostMaintenance(body) ==
    IF Accepts(insertMaintenanceRequestSchema, body)
    THEN /\ createMaintenanceRequest(Parse(insertMaintenanceRequestSchema, body))
         /\ response' = Json(201, ret'.value)
    ELSE Reject400

\* app.patch("/api/maintenance/:id")
PatchMaintenance(id, body) == updateMaintenanceRequest(id, body) /\ AnswerUpdate

\* app.post("/api/payments")
PostPayments(body) ==
    IF Accepts(insertPaymentSchema, body)
    THEN createPayment(Parse(insertPaymentSchema, body)) /\ response' = Json(201, ret'.value)
    ELSE Reject400

\* app.put("/api/settings/:key") up to the await inside updateHotelSetting
PutSettingBegin(key, body) == updateHotelSettingBegin(key, Get(body, "value"))

\* app.put("/api/settings/:key") from the await on: the setting is stored and sent
PutSettingResume ==
    /\ updateHotelSettingResume
    /\ response' = Json(200, ret'.value)

(***************************************************************************)
(* app.get("/api/dashboard/metrics").  Numbers are IEEE doubles in the     *)
(* code.  A decimal column (totalAmount, a string with two fraction        *)
(* digits) is modelled by its count of cents.  A double is modelled by an  *)
(* integer count of UnitsPerCent-ths of a cent: parseFloat and every       *)
(* addition return the nearest double, which for values below 2^33 lies    *)
(* less than one unit from the exact result, so each of them may add any   *)
(* error of at most one unit.  The quotient of two room counts below 8 is  *)
(* never within a rounding error of a half, so Math.round of it is exact.  *)
(***************************************************************************)
UnitsPerCent == 1000
NaN == [nan |-> TRUE]
Number(n) == [value |-> n]
RoundingErrors == {-1, 0, 1}

\* parseFloat(totalAmount): the doubles it may return
parseFloat(cents) == { cents * UnitsPerCent + e : e \in RoundingErrors }

\* sum + x in doubles: the doubles it may return
FloatAdd(sum, x) == { sum + x + e : e \in RoundingErrors }

\* todaysBookings.reduce((sum, booking) => sum + parseFloat(booking.totalAmount), 0):
\* the doubles the reduction may end with
RECURSIVE Reduce(_, _)
Reduce(sums, array) ==
    IF array = <<>> THEN sums
    ELSE Reduce(UNION { FloatAdd(sum, x) : sum \in sums, x \in parseFloat(Head(array).totalAmount) },
                Tail(array))

TwoDigits(n) == IF n < 10 THEN "0" \o ToString(n) ELSE ToString(n)

\* mutant: the digits after the second are cut off
toFixed2Truncates(x) ==
    LET cents == x \div UnitsPerCent
    IN ToString(cents \div 100) \o "." \o TwoDigits(cents % 100)

\* Number.prototype.toFixed(2) of a double that is not negative: the nearest
\* count of cents, written with two fraction digits
toFixed2(x) ==
    LET cents == (2 * x + UnitsPerCent) \div (2 * UnitsPerCent)
    IN ToString(cents \div 100) \o "." \o TwoDigits(cents % 100)

\* Math.round((occupiedRooms / totalRooms) * 100): 0 / 0 is NaN, and so is
\* what is computed from it; otherwise the nearest integer, a half going up
occupancyRate(occupiedRooms, totalRooms) ==
    IF totalRooms = 0 THEN NaN
    ELSE Number((200 * occupiedRooms + totalRooms) \div (2 * totalRooms))

\* JSON.stringify of a number: its digits, and null for NaN
JsonNumber(x) == IF x = NaN THEN Null ELSE ToString(x.value)

CountStatus(array, status) ==
    Len(SelectSeq(array, LAMBDA room : Get(room, "status") = status))

\* the bookings of the reduction: those whose checkIn is on the local day of now
todaysBookings ==
    LET today == Midnight(now)
    IN SelectSeq(getBookings, LAMBDA booking : Midnight(newDate(booking.checkIn)) = today)

\* the handler
GetDashboardMetrics ==
    LET allRooms == getRooms
        totalRooms == Len(allRooms)
        occupiedRooms == CountStatus(allRooms, "occupied")
    IN \E revenue \in Reduce({0}, todaysBookings) :
        /\ response' = Json(200,
              [occupancyRate |-> JsonNumber(occupancyRate(occupiedRooms, totalRooms)),
               revenue |-> toFixed2(revenue),
               pendingCheckins |-> Len(getTodaysArrivals),
               maintenanceRequests |-> Len(getPendingMaintenanceRequests),
               totalRooms |-> totalRooms,
               occupiedRooms |-> occupiedRooms,
               availableRooms |-> CountStatus(allRooms, "available"),
               maintenanceRooms |-> CountStatus(allRooms, "maintenance")])
        /\ ret' = Return(getPendingMaintenanceRequests)
        /\ UNCHANGED storeVars

(***************************************************************************)
(* The requests explored.  Bodies are what a client can put on the wire: a *)
(* complete body, one with a column missing, one with a value of the wrong *)
(* type, one with a key the schema does not have.                          *)
(***************************************************************************)
EmptyObject == [k \in {} |-> Undefined]
Today == Midnight(now)
Tomorrow == Today + DayLen

RoomBodies ==
    { [number |-> "101", status |-> "available"],
      [number |-> "601", id |-> 1],
      [status |-> "available"],
      [number |-> NotAString, status |-> "available"] }

RoomPartials ==
    { [status |-> "occupied"], [status |-> "available"],
      [status |-> "maintenance", notes |-> "leak"],
      [id |-> 2], [status |-> NotAString] }

\* bodies of the status-only route: a status, no status, and a status next to
\* other columns of the room
RoomStatusBodies ==
    { [status |-> "pending"], EmptyObject,
      [status |-> "occupied", number |-> "999", id |-> 2] }

GuestBodies == { [firstName |-> "Ada", email |-> "ada@example.com"], [firstName |-> "Ada"] }
GuestPartials == { [email |-> "a@example.com"], [id |-> 1, createdAt |-> 0] }

BookingBodies ==
    { [roomId |-> 1, guestId |-> NoId, checkIn |-> Today, checkOut |-> Tomorrow,
       totalAmount |-> 100, status |-> "confirmed"],
      [roomId |-> NoId, guestId |-> NoId, checkIn |-> Today - 1, checkOut |-> Today,
       totalAmount |-> 1, status |-> "checked_in"],
      [guestId |-> NoId, checkIn |-> Today, checkOut |-> Tomorrow, totalAmount |-> 100] }

BookingPartials ==
    { [status |-> s] : s \in BookingStatuses } \cup
    { [id |-> 1], [status |-> NotAString], [createdAt |-> 0] }

StaffBodies == { [employeeId |-> "E1", isActive |-> TRUE], [isActive |-> TRUE] }
StaffPartials == { [isActive |-> FALSE], [employeeId |-> NotAString] }

MaintenanceBodies ==
    { [roomId |-> 1, type |-> "repair", status |-> "pending"], [roomId |-> 1] }
MaintenancePartials == { [status |-> "completed", completedAt |-> 1], [type |-> NotAString] }

PaymentBodies ==
    { [bookingId |-> NoId, amount |-> 100, method |-> "cash", status |-> "pending"],
      [amount |-> 100] }
PaymentPartials == { [status |-> "completed"], [amount |-> 5, id |-> 1] }

\* the ids a request on a collection may name: the first sample room, what
\* was created since, and an id that was never handed out
TargetIds(map) == {i \in DOMAIN map : i = 1 \/ i > InitialRooms} \cup {NoId}

Lookup(map, id) == IF id \in DOMAIN map THEN map[id] ELSE Absent

(***************************************************************************)
(* Spec: REST requests served one after the other.                         *)
(***************************************************************************)
Init ==
    /\ now = DayLen + 1
    /\ rooms = [i \in 1..InitialRooms |-> sampleRooms(now)[i]]
    /\ guests = EmptyObject
    /\ bookings = EmptyObject
    /\ staff = EmptyObject
    /\ maintenanceRequests = EmptyObject
    /\ payments = EmptyObject
    /\ uuidCount = InitialRooms
    /\ ret = Return(Absent)
    /\ response = Json(0, Absent)
    /\ call = [op |-> "none", id |-> NoId, body |-> EmptyObject, prior |-> Absent]
    /\ ops = 0
    /\ inflight = {}
    /\ answered = <<>>
    /\ todaysArrivals = <<>>
    /\ todaysDepartures = <<>>
    /\ selectedBooking = Absent
    /\ dialog = "closed"
    /\ hotelSettings = EmptyObject
    /\ awaiting = <<>>
    /\ guestCommunications = EmptyObject
    /\ stripe = Null
    /\ paymentIntents = <<>>

\* one request or storage call, served from start to end
Served(op, id, body, prior, handler) ==
    /\ ops < MaxOps
    /\ handler
    /\ call' = [op |-> op, id |-> id, body |-> body, prior |-> prior]
    /\ ops' = IF ret'.threw THEN ops ELSE ops + 1
    /\ UNCHANGED <<settingVars, serviceVars, now, inflight, answered, todaysArrivals, todaysDepartures,
                   selectedBooking, dialog>>

ReqPostRooms == \E body \in RoomBodies :
    Served("POST /api/rooms", NoId, body, Absent, PostRooms(body))
ReqPatchRoom == \E id \in TargetIds(rooms), body \in RoomPartials :
    Served("PATCH /api/rooms/:id", id, body, Lookup(rooms, id), PatchRoom(id, body))
ReqPatchRoomStatus == \E id \in TargetIds(rooms), body \in RoomStatusBodies :
    Served("PATCH /api/rooms/:id/status", id, body, Lookup(rooms, id), PatchRoomStatus(id, body))
ReqPostGuests == \E body \in GuestBodies :
    Served("POST /api/guests", NoId, body, Absent, PostGuests(body))
ReqPatchGuest == \E id \in TargetIds(guests), body \in GuestPartials :
    Served("PATCH /api/guests/:id", id, body, Lookup(guests, id), PatchGuest(id, body))
ReqPostBookings == \E body \in BookingBodies :
    Served("POST /api/bookings", NoId, body, Absent, PostBookings(body))
ReqPatchBooking == \E id \in TargetIds(bookings), body \in BookingPartials :
    Served("PATCH /api/bookings/:id", id, body, Lookup(bookings, id), PatchBooking(id, body))
ReqPostStaff == \E body \in StaffBodies :
    Served("POST /api/staff", NoId, body, Absent, PostStaff(body))
ReqPatchStaff == \E id \in TargetIds(staff), body \in StaffPartials :
    Served("PATCH /api/staff/:id", id, body, Lookup(staff, id), PatchStaff(id, body))
ReqPostMaintenance == \E body \in MaintenanceBodies :
    Served("POST /api/maintenance", NoId, body, Absent, PostMaintenance(body))
ReqPatchMaintenance == \E id \in TargetIds(maintenanceRequests), body \in MaintenancePartials :
    Served("PATCH /api/maintenance/:id", id, body, Lookup(maintenanceRequests, id),
           PatchMaintenance(id, body))
ReqPostPayments == \E body \in PaymentBodies :
    Served("POST /api/payments", NoId, body, Absent, PostPayments(body))

Next ==
    \/ ReqPostRooms \/ ReqPatchRoom \/ ReqPatchRoomStatus
    \/ ReqPostGuests \/ ReqPatchGuest
    \/ ReqPostBookings \/ ReqPatchBooking
    \/ ReqPostStaff \/ ReqPatchStaff
    \/ ReqPostMaintenance \/ ReqPatchMaintenance
    \/ ReqPostPayments

Spec == Init /\ [][Next]_vars

(***************************************************************************)
(* SpecStore: the storage interface (IStorage) called directly, one method *)
(* call after the other.  It reaches updatePayment, which no route calls.  *)
(***************************************************************************)
Inserts(schema, bodies) == { Parse(schema, b) : b \in { x \in bodies : Accepts(schema, x) } }

CallCreateRoom == \E insertRoom \in Inserts(insertRoomSchema, RoomBodies) :
    Served("createRoom", NoId, insertRoom, Absent, createRoom(insertRoom) /\ UNCHANGED response)
CallUpdateRoom == \E id \in TargetIds(rooms), updates \in RoomPartials :
    Served("updateRoom", id, updates, Lookup(rooms, id),
           updateRoom(id, updates) /\ UNCHANGED response)
CallUpdateRoomStatus == \E id \in TargetIds(rooms), status \in {"pending", "occupied"} :
    Served("updateRoomStatus", id, [status |-> status], Lookup(rooms, id),
           updateRoomStatus(id, status) /\ UNCHANGED response)
CallCreateGuest == \E insertGuest \in Inserts(insertGuestSchema, GuestBodies) :
    Served("createGuest", NoId, insertGuest, Absent, createGuest(insertGuest) /\ UNCHANGED response)
CallUpdateGuest == \E id \in TargetIds(guests), updates \in GuestPartials :
    Served("updateGuest", id, updates, Lookup(guests, id),
           updateGuest(id, updates) /\ UNCHANGED response)
CallCreateBooking == \E insertBooking \in Inserts(insertBookingSchema, BookingBodies) :
    Served("createBooking", NoId, insertBooking, Absent,
           createBooking(insertBooking) /\ UNCHANGED response)
CallUpdateBooking == \E id \in TargetIds(bookings), updates \in BookingPartials :
    Served("updateBooking", id, updates, Lookup(bookings, id),
           updateBooking(id, updates) /\ UNCHANGED response)
CallCreateStaffMember == \E insertStaff \in Inserts(insertStaffSchema, StaffBodies) :
    Served("createStaffMember", NoId, insertStaff, Absent,
           createStaffMember(insertStaff) /\ UNCHANGED response)
CallUpdateStaffMember == \E id \in TargetIds(staff), updates \in StaffPartials :
    Served("updateStaffMember", id, updates, Lookup(staff, id),
           updateStaffMember(id, updates) /\ UNCHANGED response)
CallCreateMaintenanceRequest ==
    \E insertRequest \in Inserts(insertMaintenanceRequestSchema, MaintenanceBodies) :
    Served("createMaintenanceRequest", NoId, insertRequest, Absent,
           createMaintenanceRequest(insertRequest) /\ UNCHANGED response)
CallUpdateMaintenanceRequest ==
    \E id \in TargetIds(maintenanceRequests), updates \in MaintenancePartials :
    Served("updateMaintenanceRequest", id, updates, Lookup(maintenanceRequests, id),
           updateMaintenanceRequest(id, updates) /\ UNCHANGED response)
CallCreatePayment == \E insertPayment \in Inserts(insertPaymentSchema, PaymentBodies) :
    Served("createPayment", NoId, insertPayment, Absent,
           createPayment(insertPayment) /\ UNCHANGED response)
CallUpdatePayment == \E id \in TargetIds(payments), updates \in PaymentPartials :
    Served("updatePayment", id, updates, Lookup(payments, id),
           updatePayment(id, updates) /\ UNCHANGED response)

NextStore ==
    \/ CallCreateRoom \/ CallUpdateRoom \/ CallUpdateRoomStatus
    \/ CallCreateGuest \/ CallUpdateGuest
    \/ CallCreateBooking \/ CallUpdateBooking
    \/ CallCreateStaffMember \/ CallUpdateStaffMember
    \/ CallCreateMaintenanceRequest \/ CallUpdateMaintenanceRequest
    \/ CallCreatePayment \/ CallUpdatePayment

SpecStore == Init /\ [][NextStore]_vars

(***************************************************************************)
(* Requests on the wire.  A page sends a request (inflight); the server    *)
(* serves the requests it has received one handler at a time, in any       *)
(* order, or the request is lost on the way; either way the request moves  *)
(* to the log (answered) with the status the client sees, 0 when no        *)
(* response came.  A storage call made by a handler has no await inside,   *)
(* so a handler's effect on the store is one step.                         *)
(***************************************************************************)
NextSerial == Len(answered) + Cardinality(inflight) + 1

Request(n, mutation, route, id, body) ==
    [n |-> n, mutation |-> mutation, route |-> route, id |-> id, body |-> body,
     sentAt |-> Len(answered)]

Logged(req, status, settled) ==
    [n |-> req.n, mutation |-> req.mutation, route |-> req.route, id |-> req.id,
     body |-> req.body, sentAt |-> req.sentAt, status |-> status, settled |-> settled]

\* useMutation().isPending: a request of the mutation is not settled yet
isPending(mutation) ==
    \/ \E r \in inflight : r.mutation = mutation
    \/ \E i \in 1..Len(answered) : answered[i].mutation = mutation /\ ~answered[i].settled

\* the route handler a request reaches
Dispatch(req) ==
    \/ req.route = "PATCH /api/bookings/:id" /\ PatchBooking(req.id, req.body)
    \/ req.route = "PATCH /api/rooms/:id/status" /\ PatchRoomStatus(req.id, req.body)
    \/ req.route = "PATCH /api/rooms/:id" /\ PatchRoom(req.id, req.body)

\* the server runs the handler of a request it received
Serve ==
    \E req \in inflight :
        /\ Dispatch(req)
        /\ inflight' = inflight \ {req}
        /\ answered' = Append(answered,
                              Logged(req, response'.status, req.mutation = "updateRoomStatus"))
        /\ call' = [op |-> req.route, id |-> req.id, body |-> req.body,
                    prior |-> IF req.route = "PATCH /api/bookings/:id"
                              THEN Lookup(bookings, req.id) ELSE Lookup(rooms, req.id)]
        /\ UNCHANGED <<settingVars, serviceVars, now, ops, todaysArrivals, todaysDepartures, selectedBooking, dialog>>

\* the request never reaches the server: fetch rejects
Lost ==
    \E req \in inflight :
        /\ inflight' = inflight \ {req}
        /\ answered' = Append(answered, Logged(req, 0, req.mutation = "updateRoomStatus"))
        /\ UNCHANGED <<settingVars, serviceVars, storeVars, now, ret, response, call, ops,
                       todaysArrivals, todaysDepartures, selectedBooking, dialog>>

(***************************************************************************)
(* client/src/pages/checkin.tsx: the check-in page.                        *)
(***************************************************************************)
\* useQuery(["/api/bookings/arrivals/today"]), first load and every refetch
QueryArrivals ==
    /\ todaysArrivals' = getTodaysArrivals
    /\ UNCHANGED <<settingVars, serviceVars, storeVars, now, ret, response, call, ops, inflight, answered,
                   todaysDepartures, selectedBooking, dialog>>

\* useQuery(["/api/bookings/departures/today"]), first load and every refetch
QueryDepartures ==
    /\ todaysDepartures' = getTodaysDepartures
    /\ UNCHANGED <<settingVars, serviceVars, storeVars, now, ret, response, call, ops, inflight, answered,
                   todaysArrivals, selectedBooking, dialog>>

\* the Check In button of an arrival, rendered when the listed status is confirmed
handleCheckIn ==
    \E i \in 1..Len(todaysArrivals) :
        /\ dialog = "closed"
        /\ Get(todaysArrivals[i], "status") = "confirmed"
        /\ selectedBooking' = todaysArrivals[i]
        /\ dialog' = "checkin"
        /\ UNCHANGED <<settingVars, serviceVars, storeVars, now, ret, response, call, ops, inflight, answered,
                       todaysArrivals, todaysDepartures>>

\* the Check Out button of a departure, rendered when the listed status is checked_in
handleCheckOut ==
    \E i \in 1..Len(todaysDepartures) :
        /\ dialog = "closed"
        /\ Get(todaysDepartures[i], "status") = "checked_in"
        /\ selectedBooking' = todaysDepartures[i]
        /\ dialog' = "checkout"
        /\ UNCHANGED <<settingVars, serviceVars, storeVars, now, ret, response, call, ops, inflight, answered,
                       todaysArrivals, todaysDepartures>>

\* the two mutate() calls of a confirmation: both requests leave before either
\* is answered
TwoCalls(mutation, bookingStatus, roomStatus) ==
    /\ selectedBooking # Absent
    /\ ~isPending(mutation)
    /\ NextSerial + 1 <= MaxRequests
    /\ inflight' = inflight \cup
          { Request(NextSerial, mutation, "PATCH /api/bookings/:id",
                    selectedBooking.id, [status |-> bookingStatus]),
            Request(NextSerial + 1, "updateRoomStatus", "PATCH /api/rooms/:id/status",
                    selectedBooking.roomId, [status |-> roomStatus]) }
    /\ UNCHANGED <<settingVars, serviceVars, storeVars, now, ret, response, call, ops, answered,
                   todaysArrivals, todaysDepartures, selectedBooking, dialog>>

\* Confirm Check-in, disabled while checkInMutation.isPending
confirmCheckIn == dialog = "checkin" /\ TwoCalls("checkIn", "checked_in", "occupied")

\* Confirm Check-out, disabled while checkOutMutation.isPending
confirmCheckOut == dialog = "checkout" /\ TwoCalls("checkOut", "checked_out", "available")

\* Cancel, Escape or a click outside: onOpenChange(false)
closeDialog ==
    /\ dialog # "closed"
    /\ dialog' = "closed"
    /\ UNCHANGED <<settingVars, serviceVars, storeVars, now, ret, response, call, ops, inflight, answered,
                   todaysArrivals, todaysDepartures, selectedBooking>>

\* onSuccess / onError of checkInMutation and checkOutMutation: a 200 answer
\* resolves the mutation and no answer rejects it; which callback an error
\* answer reaches is decided by apiRequest (lib/queryClient), so either may run
Settle ==
    \E i \in 1..Len(answered) :
        /\ ~answered[i].settled
        /\ answered' = [answered EXCEPT ![i].settled = TRUE]
        /\ \E resolved \in (IF answered[i].status = 200 THEN {TRUE}
                            ELSE IF answered[i].status = 0 THEN {FALSE} ELSE BOOLEAN) :
              IF resolved
              THEN dialog' = "closed" /\ selectedBooking' = Absent
              ELSE UNCHANGED <<dialog, selectedBooking>>
        /\ UNCHANGED <<settingVars, serviceVars, storeVars, now, ret, response, call, ops, inflight,
                       todaysArrivals, todaysDepartures>>

\* the bookings on file when the page is opened: three POST /api/bookings that
\* were accepted: an arrival for sample room 101, one for sample room 203,
\* one for a room id that is not stored, and a guest in house in room 102 who
\* leaves today
BookingAsCreated(id, insertBooking, t) ==
    Merge(insertBooking, [id |-> id, createdAt |-> t, cloudbedsSyncId |-> Null])

BookingsOnFile(t) ==
    LET day == Midnight(t)
        arrival(roomId) == [roomId |-> roomId, guestId |-> NoId, checkIn |-> day,
                            checkOut |-> day + DayLen, totalAmount |-> 100,
                            status |-> "confirmed"]
        departure == [roomId |-> 2, guestId |-> NoId, checkIn |-> day - DayLen,
                      checkOut |-> day, totalAmount |-> 100, status |-> "checked_in"]
    IN [i \in (InitialRooms + 1)..(InitialRooms + 4) |->
          BookingAsCreated(i, CASE i = InitialRooms + 1 -> arrival(1)
                                [] i = InitialRooms + 2 -> arrival(4)
                                [] i = InitialRooms + 3 -> arrival(NoId)
                                [] OTHER -> departure, t)]

InitCheckin ==
    /\ now = DayLen + 1
    /\ rooms = [i \in 1..InitialRooms |-> sampleRooms(now)[i]]
    /\ guests = EmptyObject
    /\ bookings = BookingsOnFile(now)
    /\ staff = EmptyObject
    /\ maintenanceRequests = EmptyObject
    /\ payments = EmptyObject
    /\ uuidCount = InitialRooms + 4
    /\ ret = Return(Absent)
    /\ response = Json(0, Absent)
    /\ call = [op |-> "none", id |-> NoId, body |-> EmptyObject, prior |-> Absent]
    /\ ops = 0
    /\ inflight = {}
    /\ answered = <<>>
    /\ todaysArrivals = <<>>
    /\ todaysDepartures = <<>>
    /\ selectedBooking = Absent
    /\ dialog = "closed"
    /\ hotelSettings = EmptyObject
    /\ awaiting = <<>>
    /\ guestCommunications = EmptyObject
    /\ stripe = Null
    /\ paymentIntents = <<>>

NextCheckin ==
    \/ QueryArrivals \/ QueryDepartures
    \/ handleCheckIn \/ handleCheckOut
    \/ confirmCheckIn \/ confirmCheckOut
    \/ closeDialog
    \/ Serve \/ Lost \/ Settle

SpecCheckin == InitCheckin /\ [][NextCheckin]_vars

(***************************************************************************)
(* SpecRace: clients that PATCH sample room 101 (lib/api.ts updateRoom)    *)
(* without waiting for one another.                                        *)
(***************************************************************************)
RacePartials ==
    { [status |-> "occupied"], [status |-> "maintenance", notes |-> "leak"],
      [notes |-> "vip"] }

SendPatchRoom ==
    \E body \in RacePartials :
        /\ NextSerial <= MaxRequests
        /\ inflight' = inflight \cup
              { Request(NextSerial, "updateRoom", "PATCH /api/rooms/:id", 1, body) }
        /\ UNCHANGED <<settingVars, serviceVars, storeVars, now, ret, response, call, ops, answered,
                       todaysArrivals, todaysDepartures, selectedBooking, dialog>>

ServeRace ==
    \E req \in inflight :
        /\ Dispatch(req)
        /\ inflight' = inflight \ {req}
        /\ answered' = Append(answered, Logged(req, response'.status, TRUE))
        /\ call' = [op |-> req.route, id |-> req.id, body |-> req.body,
                    prior |-> Lookup(rooms, req.id)]
        /\ UNCHANGED <<settingVars, serviceVars, now, ops, todaysArrivals, todaysDepartures, selectedBooking, dialog>>

NextRace == SendPatchRoom \/ ServeRace

SpecRace == Init /\ [][NextRace]_vars

(***************************************************************************)
(* SpecRead: the read side of the store.  Rooms and bookings are created   *)
(* and rooms updated through IStorage, and between the writes the lists,   *)
(* the point lookups and the date queries are read, any number of times.   *)
(***************************************************************************)
\* the stays on file: one that began on the last tick of yesterday and ends
\* at midnight today, one from midnight today to midnight tomorrow, one that
\* begins on the last tick of today, and one that begins at midnight tomorrow
Stay(checkIn, checkOut, status) ==
    [roomId |-> 1, guestId |-> NoId, checkIn |-> checkIn, checkOut |-> checkOut,
     totalAmount |-> 100, status |-> status]

StayBodies ==
    { Stay(Today - 1, Today, "checked_in"),
      Stay(Today, Tomorrow, "cancelled"),
      Stay(Tomorrow - 1, Tomorrow + 1, "confirmed"),
      Stay(Tomorrow, Tomorrow + DayLen, "confirmed") }

\* the ranges asked for: today up to midnight tomorrow, today up to its last
\* tick, and a range around both
DateRanges ==
    { [checkIn |-> Today, checkOut |-> Tomorrow],
      [checkIn |-> Today, checkOut |-> Tomorrow - 1],
      [checkIn |-> Today - 1, checkOut |-> Tomorrow + 1] }

RoomNumbers == {"101", "601", "999"}

\* the updates made between the reads: a room is given the number of another
\* room, or a note
RoomEdits == { [number |-> "601"], [notes |-> "vip"] }

\* a storage read called directly: it returns and leaves everything as it was
Read(op, id, body, value) ==
    /\ ret' = Return(value)
    /\ call' = [op |-> op, id |-> id, body |-> body, prior |-> Absent]
    /\ UNCHANGED <<storeVars, settingVars, serviceVars, netVars, pageVars, now, response, ops>>

CallCreateStay == \E insertBooking \in StayBodies :
    Served("createBooking", NoId, insertBooking, Absent,
           createBooking(insertBooking) /\ UNCHANGED response)

CallEditRoom == \E id \in TargetIds(rooms) \ {NoId}, updates \in RoomEdits :
    Served("updateRoom", id, updates, Lookup(rooms, id),
           updateRoom(id, updates) /\ UNCHANGED response)

CallGetRooms == Read("getRooms", NoId, EmptyObject, getRooms)
CallGetRoom == \E id \in TargetIds(rooms) : Read("getRoom", id, EmptyObject, getRoom(id))
CallGetRoomByNumber == \E number \in RoomNumbers :
    Read("getRoomByNumber", NoId, [number |-> number], getRoomByNumber(number))
CallGetBookingsByDateRange == \E range \in DateRanges :
    Read("getBookingsByDateRange", NoId, range,
         getBookingsByDateRange(range.checkIn, range.checkOut))
CallGetTodaysArrivals == Read("getTodaysArrivals", NoId, EmptyObject, getTodaysArrivals)
CallGetTodaysDepartures == Read("getTodaysDepartures", NoId, EmptyObject, getTodaysDepartures)

ReqGetRoom == \E id \in TargetIds(rooms) :
    /\ GetRoom(id)
    /\ call' = [op |-> "GET /api/rooms/:id", id |-> id, body |-> EmptyObject,
                prior |-> Lookup(rooms, id)]
    /\ UNCHANGED <<settingVars, serviceVars, netVars, pageVars, now, ops>>

NextRead ==
    \/ CallCreateRoom \/ CallEditRoom \/ CallCreateStay
    \/ CallGetRooms \/ CallGetRoom \/ CallGetRoomByNumber
    \/ CallGetBookingsByDateRange
    \/ CallGetTodaysArrivals \/ CallGetTodaysDepartures
    \/ ReqGetRoom

SpecRead == Init /\ [][NextRead]_vars

(***************************************************************************)
(* SpecMetrics: the dashboard computation over the lists the storage       *)
(* interface hands to the handler.  The lists are drawn from bounded sets: *)
(* any number of rooms from none to MaxRooms, of which any number are      *)
(* occupied, and up to MaxBookings bookings with amounts in whole cents    *)
(* that begin yesterday, today or tomorrow.                                *)
(***************************************************************************)
RoomList(total, occupied) ==
    [i \in 1..total |->
        [id |-> i, number |-> "101", notes |-> Null, lastCleaned |-> NullDate,
         status |-> IF i <= occupied THEN "occupied" ELSE "available"]]

AmountsInCents == {1, 9999}

MetricsStays(t) ==
    { [roomId |-> 1, guestId |-> NoId, checkIn |-> checkIn, checkOut |-> checkIn + DayLen,
       totalAmount |-> amount, status |-> "confirmed"] :
         checkIn \in { Midnight(t) - 1, Midnight(t), Midnight(t) + DayLen - 1,
                       Midnight(t) + DayLen },
         amount \in AmountsInCents }

BookingList(stays, t) ==
    [id \in (MaxRooms + 1)..(MaxRooms + Len(stays)) |->
        BookingAsCreated(id, stays[id - MaxRooms], t)]

InitMetrics ==
    /\ now = DayLen + 1
    /\ \E total \in 0..MaxRooms : \E occupied \in 0..total :
          rooms = RoomList(total, occupied)
    /\ \E n \in 0..MaxBookings : \E stays \in [1..n -> MetricsStays(now)] :
          bookings = BookingList(stays, now)
    /\ guests = EmptyObject
    /\ staff = EmptyObject
    /\ maintenanceRequests = EmptyObject
    /\ payments = EmptyObject
    /\ uuidCount = MaxRooms + MaxBookings
    /\ ret = Return(Absent)
    /\ response = Json(0, Absent)
    /\ call = [op |-> "none", id |-> NoId, body |-> EmptyObject, prior |-> Absent]
    /\ ops = 0
    /\ inflight = {}
    /\ answered = <<>>
    /\ todaysArrivals = <<>>
    /\ todaysDepartures = <<>>
    /\ selectedBooking = Absent
    /\ dialog = "closed"
    /\ hotelSettings = EmptyObject
    /\ awaiting = <<>>
    /\ guestCommunications = EmptyObject
    /\ stripe = Null
    /\ paymentIntents = <<>>

ReqGetDashboardMetrics ==
    /\ call.op = "none"
    /\ GetDashboardMetrics
    /\ call' = [op |-> "GET /api/dashboard/metrics", id |-> NoId, body |-> EmptyObject,
                prior |-> Absent]
    /\ UNCHANGED <<settingVars, serviceVars, netVars, pageVars, now, ops>>

NextMetrics == ReqGetDashboardMetrics

SpecMetrics == InitMetrics /\ [][NextMetrics]_vars

(***************************************************************************)
(* SpecSettings: PUT /api/settings/:key, one request after the other: a    *)
(* request is sent when the one before it has been answered.               *)
(***************************************************************************)
SettingKeys == {"hotel_name", "tax_rate"}
SettingBodies == { [value |-> "a"], [value |-> "b"], EmptyObject }

ReqPutSetting == \E key \in SettingKeys, body \in SettingBodies :
    /\ ops < MaxOps
    /\ awaiting = <<>>
    /\ PutSettingBegin(key, body)
    /\ ops' = ops + 1
    /\ UNCHANGED <<serviceVars, netVars, pageVars, now, response, call>>

ResumePutSetting ==
    /\ awaiting # <<>>
    /\ PutSettingResume
    /\ call' = [op |-> "PUT /api/settings/:key", id |-> Head(awaiting).key,
                body |-> [value |-> Head(awaiting).value],
                prior |-> getHotelSetting(Head(awaiting).key)]
    /\ UNCHANGED <<serviceVars, netVars, pageVars, now, ops>>

NextSettings == ReqPutSetting \/ ResumePutSetting

SpecSettings == Init /\ [][NextSettings]_vars

(***************************************************************************)
(* SpecPayments: the payments page (client/src/pages/payments.tsx) in      *)
(* front of the payment routes and the Stripe payment-intent route.  The   *)
(* server was started with or without STRIPE_SECRET_KEY.                   *)
(***************************************************************************)
PaymentStatuses == {"pending", "completed", "failed", "refunded"}

getPayments == Values(payments)

getPaymentsByBooking(bookingId) ==
    SelectSeq(Values(payments), LAMBDA payment : Get(payment, "bookingId") = bookingId)

\* app.get("/api/payments")
GetPayments ==
    /\ ret' = Return(getPayments)
    /\ response' = Json(200, ret'.value)
    /\ UNCHANGED storeVars

\* app.get("/api/payments/booking/:bookingId")
GetPaymentsByBooking(bookingId) ==
    /\ ret' = Return(getPaymentsByBooking(bookingId))
    /\ response' = Json(200, ret'.value)
    /\ UNCHANGED storeVars

\* the methods and paths registerRoutes registers for payments
PaymentRoutes ==
    {"GET /api/payments", "GET /api/payments/booking/:bookingId", "POST /api/payments"}

\* what answers a request that no route of registerRoutes matches: the
\* application's fall-through, a 404 or the page shell with 200, not JSON
FallThrough == {404, 200}
PageShell == [html |-> TRUE]

NotRouted ==
    /\ \E status \in FallThrough : response' = Json(status, PageShell)
    /\ UNCHANGED <<storeVars, ret>>

\* PATCH /api/payments/:id as the server handles it
PatchPayment(id, body) ==
    IF "PATCH /api/payments/:id" \in PaymentRoutes
    THEN updatePayment(id, body) /\ AnswerUpdate
    ELSE NotRouted

\* handleStatusChange(paymentId, newStatus): the data of updatePaymentMutation
updateData(newStatus) ==
    IF newStatus = "completed"
    THEN [status |-> newStatus, processedAt |-> now]
    ELSE [status |-> newStatus]

\* ---- Stripe
StripeClient == "Stripe"          \* new Stripe(process.env.STRIPE_SECRET_KEY)
NotConfigured == "Stripe not configured. Please set STRIPE_SECRET_KEY environment variable."
IntentError == "Error creating payment intent: "

\* Math.round(amount * 100) for the amount of the body, given in thousandths
\* of a dollar; NaN when the body has no amount
Cents(body) ==
    IF "amount" \in DOMAIN body THEN Number((body.amount + 5) \div 10) ELSE NaN

\* stripe.paymentIntents.create(params): the call is made and the collaborator
\* resolves with an intent or rejects
paymentIntentsCreate(params, outcome) ==
    paymentIntents' = Append(paymentIntents, Merge(params, [outcome |-> outcome]))

\* mutant: the route without its guard; the call on null throws into the catch
CreatePaymentIntentUnguarded(body) ==
    /\ IF stripe = Null
       THEN /\ response' = Json(500, Message(IntentError))
            /\ UNCHANGED paymentIntents
       ELSE \E outcome \in {"intent", "rejected"} :
               /\ paymentIntentsCreate([amount |-> Cents(body),
                                        currency |-> "aud"], outcome)
               /\ response' = IF outcome = "intent"
                              THEN Json(200, [clientSecret |-> "secret"])
                              ELSE Json(500, Message(IntentError))
    /\ UNCHANGED <<storeVars, ret>>

\* app.post("/api/create-payment-intent")
CreatePaymentIntent(body) ==
    /\ IF stripe = Null
       THEN /\ response' = Json(400, Message(NotConfigured))
            /\ UNCHANGED paymentIntents
       ELSE \E outcome \in {"intent", "rejected"} :
               /\ paymentIntentsCreate([amount |-> Cents(body),
                                        currency |-> "aud"], outcome)
               /\ response' = IF outcome = "intent"
                              THEN Json(200, [clientSecret |-> "secret"])
                              ELSE Json(500, Message(IntentError))
    /\ UNCHANGED <<storeVars, ret>>

IntentBodies == { [amount |-> 120505], EmptyObject }

InitPayments ==
    /\ now = DayLen + 1
    /\ rooms = [i \in 1..InitialRooms |-> sampleRooms(now)[i]]
    /\ guests = EmptyObject
    /\ bookings = EmptyObject
    /\ staff = EmptyObject
    /\ maintenanceRequests = EmptyObject
    /\ payments = EmptyObject
    /\ uuidCount = InitialRooms
    /\ ret = Return(Absent)
    /\ response = Json(0, Absent)
    /\ call = [op |-> "none", id |-> NoId, body |-> EmptyObject, prior |-> Absent]
    /\ ops = 0
    /\ inflight = {}
    /\ answered = <<>>
    /\ todaysArrivals = <<>>
    /\ todaysDepartures = <<>>
    /\ selectedBooking = Absent
    /\ dialog = "closed"
    /\ hotelSettings = EmptyObject
    /\ awaiting = <<>>
    /\ guestCommunications = EmptyObject
    /\ stripe \in {Null, StripeClient}
    /\ paymentIntents = <<>>

ReqGetPayments ==
    Served("GET /api/payments", NoId, EmptyObject, Absent, GetPayments)

\* the status select of a listed payment, disabled once completed or refunded
handleStatusChange == \E paymentId \in DOMAIN payments, newStatus \in PaymentStatuses :
    /\ Get(payments[paymentId], "status") \notin {"completed", "refunded"}
    /\ Served("PATCH /api/payments/:id", paymentId, updateData(newStatus),
              payments[paymentId], PatchPayment(paymentId, updateData(newStatus)))

ReqCreatePaymentIntent == \E body \in IntentBodies :
    /\ ops < MaxOps
    /\ CreatePaymentIntent(body)
    /\ call' = [op |-> "POST /api/create-payment-intent", id |-> NoId, body |-> body,
                prior |-> Absent]
    /\ ops' = ops + 1
    /\ UNCHANGED <<settingVars, guestCommunications, stripe, netVars, pageVars, now>>

NextPayments ==
    \/ ReqPostPayments \/ ReqGetPayments
    \/ handleStatusChange
    \/ ReqCreatePaymentIntent

SpecPayments == InitPayments /\ [][NextPayments]_vars

(***************************************************************************)
(* SpecLinks: rows that reference other rows (roomId, guestId, bookingId)  *)
(* are created through the POST routes, and the queries by a foreign key   *)
(* are made, through their route where there is one and on the storage     *)
(* otherwise.                                                              *)
(***************************************************************************)
getBookingsByGuest(guestId) ==
    SelectSeq(Values(bookings), LAMBDA booking : Get(booking, "guestId") = guestId)

getBookingsByRoom(roomId) ==
    SelectSeq(Values(bookings), LAMBDA booking : Get(booking, "roomId") = roomId)

\* mutant: only the communications of a stored guest are looked for
getCommunicationsByStoredGuest(guestId) ==
    IF guestId \in DOMAIN guests
    THEN SelectSeq(Values(guestCommunications), LAMBDA comm : Get(comm, "guestId") = guestId)
    ELSE <<>>

getCommunicationsByGuest(guestId) ==
    SelectSeq(Values(guestCommunications), LAMBDA comm : Get(comm, "guestId") = guestId)

createGuestCommunication(insertCommunication) ==
    LET id == randomUUID
        communication == Merge(insertCommunication, [id |-> id, createdAt |-> now])
    IN /\ guestCommunications' = MapSet(guestCommunications, id, communication)
       /\ uuidCount' = uuidCount + 1
       /\ ret' = Return(communication)
       /\ UNCHANGED collections

insertGuestCommunicationSchema ==
    [keys |-> {"guestId", "bookingId", "message", "status"},
     required |-> {"guestId", "message"},
     text |-> {"message", "status"}, nullable |-> {}]

\* app.get("/api/communications/guest/:guestId")
GetCommunicationsByGuest(guestId) ==
    /\ ret' = Return(getCommunicationsByGuest(guestId))
    /\ response' = Json(200, ret'.value)
    /\ UNCHANGED <<storeVars, guestCommunications>>

\* app.post("/api/communications")
PostCommunications(body) ==
    IF Accepts(insertGuestCommunicationSchema, body)
    THEN /\ createGuestCommunication(Parse(insertGuestCommunicationSchema, body))
         /\ response' = Json(201, ret'.value)
    ELSE Reject400 /\ UNCHANGED guestCommunications

CommunicationBodies ==
    { [guestId |-> NoId, bookingId |-> NoId, message |-> "welcome"], [message |-> "welcome"] }

LinkedMaintenanceBodies == { [roomId |-> NoId, type |-> "repair"] }

\* the ids the queries are made for: the first sample room and an id that
\* names no stored row of any collection
LinkIds == {1, NoId}

ReqPostLinkedMaintenance == \E body \in LinkedMaintenanceBodies :
    Served("POST /api/maintenance", NoId, body, Absent, PostMaintenance(body))

ReqPostCommunications == \E body \in CommunicationBodies :
    /\ ops < MaxOps
    /\ PostCommunications(body)
    /\ call' = [op |-> "POST /api/communications", id |-> NoId, body |-> body,
                prior |-> Absent]
    /\ ops' = IF ret'.threw THEN ops ELSE ops + 1
    /\ UNCHANGED <<settingVars, stripe, paymentIntents, netVars, pageVars, now>>

ReqGetPaymentsByBooking == \E bookingId \in LinkIds :
    Served("GET /api/payments/booking/:bookingId", bookingId, EmptyObject, Absent,
           GetPaymentsByBooking(bookingId))

ReqGetCommunicationsByGuest == \E guestId \in LinkIds :
    /\ ops < MaxOps
    /\ GetCommunicationsByGuest(guestId)
    /\ call' = [op |-> "GET /api/communications/guest/:guestId", id |-> guestId,
                body |-> EmptyObject, prior |-> Absent]
    /\ ops' = ops + 1
    /\ UNCHANGED <<settingVars, stripe, paymentIntents, netVars, pageVars, now>>

CallGetBookingsByGuest == \E guestId \in LinkIds :
    Read("getBookingsByGuest", guestId, EmptyObject, getBookingsByGuest(guestId))

CallGetBookingsByRoom == \E roomId \in LinkIds :
    Read("getBookingsByRoom", roomId, EmptyObject, getBookingsByRoom(roomId))

NextLinks ==
    \/ ReqPostBookings \/ ReqPostPayments
    \/ ReqPostLinkedMaintenance \/ ReqPostCommunications
    \/ ReqGetPaymentsByBooking \/ ReqGetCommunicationsByGuest
    \/ CallGetBookingsByGuest \/ CallGetBookingsByRoom

SpecLinks == Init /\ [][NextLinks]_vars

(***************************************************************************)
(* SpecDashboard: the dashboard asked for between requests that create and *)
(* change rooms and bookings.  A PATCH body is JSON, so a date in it is an  *)
(* ISO string.                                                             *)
(***************************************************************************)
StayDatePartials == { [checkIn |-> IsoString(Today)], [checkIn |-> IsoString(Tomorrow)] }

ReqPatchBookingDates == \E id \in TargetIds(bookings), body \in StayDatePartials :
    Served("PATCH /api/bookings/:id", id, body, Lookup(bookings, id), PatchBooking(id, body))

ReqGetMetrics ==
    Served("GET /api/dashboard/metrics", NoId, EmptyObject, Absent, GetDashboardMetrics)

NextDashboard ==
    \/ ReqPostRooms \/ ReqPatchRoom \/ ReqPatchRoomStatus
    \/ ReqPostBookings \/ ReqPatchBookingDates
    \/ ReqGetMetrics

SpecDashboard == Init /\ [][NextDashboard]_vars

(***************************************************************************)
(* SpecFlows: the check-in page over a store with one booking that arrives *)
(* and leaves today, so that the page lists it as an arrival and as a      *)
(* departure and a check-out can be confirmed while requests of the        *)
(* check-in are still on the wire.                                         *)
(***************************************************************************)
DayStay(t) ==
    [roomId |-> 1, guestId |-> NoId, checkIn |-> Midnight(t), checkOut |-> Midnight(t) + 1,
     totalAmount |-> 100, status |-> "confirmed"]

InitFlows ==
    /\ now = DayLen + 1
    /\ rooms = [i \in 1..InitialRooms |-> sampleRooms(now)[i]]
    /\ guests = EmptyObject
    /\ bookings = [i \in {InitialRooms + 1} |-> BookingAsCreated(i, DayStay(now), now)]
    /\ staff = EmptyObject
    /\ maintenanceRequests = EmptyObject
    /\ payments = EmptyObject
    /\ uuidCount = InitialRooms + 1
    /\ ret = Return(Absent)
    /\ response = Json(0, Absent)
    /\ call = [op |-> "none", id |-> NoId, body |-> EmptyObject, prior |-> Absent]
    /\ ops = 0
    /\ inflight = {}
    /\ answered = <<>>
    /\ todaysArrivals = <<>>
    /\ todaysDepartures = <<>>
    /\ selectedBooking = Absent
    /\ dialog = "closed"
    /\ hotelSettings = EmptyObject
    /\ awaiting = <<>>
    /\ guestCommunications = EmptyObject
    /\ stripe = Null
    /\ paymentIntents = <<>>

SpecFlows == InitFlows /\ [][NextCheckin]_vars

(***************************************************************************)
(* SpecStale: the same page and booking, while another client changes the  *)
(* status of the booking through PATCH /api/bookings/:id.                  *)
(***************************************************************************)
OtherClient == \E id \in DOMAIN bookings, status \in BookingStatuses :
    /\ ops < MaxOthers
    /\ Served("PATCH /api/bookings/:id", id, [status |-> status], bookings[id],
              PatchBooking(id, [status |-> status]))

NextStale == NextCheckin \/ OtherClient

SpecStale == InitFlows /\ [][NextStale]_vars

(***************************************************************************)
(* SpecSettingsRace: PUT /api/settings/:key requests whose handlers are    *)
(* started while earlier ones are suspended at the await of                *)
(* updateHotelSetting; the suspended calls resume in the order in which    *)
(* they were suspended.                                                    *)
(***************************************************************************)
ReqPutSettingOverlapping == \E key \in SettingKeys, body \in SettingBodies :
    /\ ops < MaxOps
    /\ PutSettingBegin(key, body)
    /\ ops' = ops + 1
    /\ UNCHANGED <<serviceVars, netVars, pageVars, now, response, call>>

NextSettingsRace == ReqPutSettingOverlapping \/ ResumePutSetting

SpecSettingsRace == Init /\ [][NextSettingsRace]_vars

(***************************************************************************)
(* Vocabulary of the properties.                                           *)
(***************************************************************************)
CollectionNames ==
    {"rooms", "guests", "bookings", "staff", "maintenanceRequests", "payments"}

Collection(name) ==
    CASE name = "rooms" -> rooms
      [] name = "guests" -> guests
      [] name = "bookings" -> bookings
      [] name = "staff" -> staff
      [] name = "maintenanceRequests" -> maintenanceRequests
      [] name = "payments" -> payments

\* the same collection after the step
CollectionAfter(name) ==
    CASE name = "rooms" -> rooms'
      [] name = "guests" -> guests'
      [] name = "bookings" -> bookings'
      [] name = "staff" -> staff'
      [] name = "maintenanceRequests" -> maintenanceRequests'
      [] name = "payments" -> payments'

UpdateMethods ==
    {"updateRoom", "updateRoomStatus", "updateGuest", "updateBooking",
     "updateStaffMember", "updateMaintenanceRequest", "updatePayment"}
CreateMethods ==
    {"createRoom", "createGuest", "createBooking", "createStaffMember",
     "createMaintenanceRequest", "createPayment"}
PatchRoutes ==
    {"PATCH /api/rooms/:id", "PATCH /api/guests/:id", "PATCH /api/bookings/:id",
     "PATCH /api/staff/:id", "PATCH /api/maintenance/:id"}
PostRoutes ==
    {"POST /api/rooms", "POST /api/guests", "POST /api/bookings", "POST /api/staff",
     "POST /api/maintenance", "POST /api/payments"}

\* the collection a method or route works on
TargetOf(op) ==
    CASE op \in {"updateRoom", "updateRoomStatus", "createRoom", "POST /api/rooms",
                 "PATCH /api/rooms/:id", "PATCH /api/rooms/:id/status"} -> "rooms"
      [] op \in {"updateGuest", "createGuest", "POST /api/guests",
                 "PATCH /api/guests/:id"} -> "guests"
      [] op \in {"updateBooking", "createBooking", "POST /api/bookings",
                 "PATCH /api/bookings/:id"} -> "bookings"
      [] op \in {"updateStaffMember", "createStaffMember", "POST /api/staff",
                 "PATCH /api/staff/:id"} -> "staff"
      [] op \in {"updateMaintenanceRequest", "createMaintenanceRequest",
                 "POST /api/maintenance", "PATCH /api/maintenance/:id"} -> "maintenanceRequests"
      [] op \in {"updatePayment", "createPayment", "POST /api/payments"} -> "payments"

\* every entity other than the one named is where and what it was
OthersUnchanged(name, id) ==
    \A c \in CollectionNames :
        /\ DOMAIN CollectionAfter(c) = DOMAIN Collection(c)
        /\ \A i \in DOMAIN Collection(c) :
              (c # name \/ i # id) => CollectionAfter(c)[i] = Collection(c)[i]

\* C1: merge semantics. A storage update of an existing entity E with partial P
\* stores and returns a record that has P's value for exactly the keys of P and
\* E's value for every other key, and changes no other entity of any collection.
C1_MergeSemantics ==
    [][ (call'.op \in UpdateMethods /\ ~ret'.threw) =>
          LET c == TargetOf(call'.op)
              E == Collection(c)[call'.id]
              P == call'.body
              stored == CollectionAfter(c)[call'.id]
          IN /\ DOMAIN stored = (DOMAIN E) \cup (DOMAIN P)
             /\ \A k \in DOMAIN P : stored[k] = P[k]
             /\ \A k \in (DOMAIN E) \ (DOMAIN P) : stored[k] = E[k]
             /\ ret'.value = stored
             /\ OthersUnchanged(c, call'.id) ]_vars

\* a payment was updated: one key took the partial's value, the others kept theirs
C1_Witness ==
    /\ call.op = "updatePayment" /\ ~ret.threw
    /\ call.id \in DOMAIN payments
    /\ call.body = [status |-> "completed"]
    /\ call.prior.status = "pending"
    /\ payments[call.id].status = "completed"
    /\ payments[call.id].amount = call.prior.amount

\* C5: no entity is ever deleted. Every id that get() finds is found in every
\* later state, the entity a create returned is stored under its id, and no
\* collection ever gets smaller.
C5_NeverDeleted ==
    [][ /\ \A c \in CollectionNames :
             /\ \A i \in DOMAIN Collection(c) : Lookup(CollectionAfter(c), i) # Absent
             /\ Cardinality(DOMAIN CollectionAfter(c)) >= Cardinality(DOMAIN Collection(c))
        /\ (call'.op \in CreateMethods /\ ~ret'.threw) =>
              Lookup(CollectionAfter(TargetOf(call'.op)), ret'.value.id) = ret'.value ]_vars

\* a booking that was created and then cancelled is still stored
C5_Witness ==
    /\ call.op = "updateBooking" /\ ~ret.threw
    /\ call.body = [status |-> "cancelled"]
    /\ getBooking(call.id) # Absent
    /\ getBooking(call.id).status = "cancelled"

\* C8: no propagation between entities. updateBooking leaves every room as it
\* was, and updateRoom and updateRoomStatus leave every booking as it was.
C8_NoPropagation ==
    [][ /\ call'.op = "updateBooking" => rooms' = rooms
        /\ call'.op \in {"updateRoom", "updateRoomStatus"} => bookings' = bookings ]_vars

\* a booking of room 1 was set to checked_in and room 1 is still not occupied
C8_Witness ==
    /\ call.op = "updateBooking" /\ ~ret.threw
    /\ call.body = [status |-> "checked_in"]
    /\ bookings[call.id].status = "checked_in"
    /\ bookings[call.id].roomId \in DOMAIN rooms
    /\ rooms[bookings[call.id].roomId].status # "occupied"

\* C2: unknown id. A PATCH that names an id its collection does not hold fails
\* with the collection's not-found error, answered 500, and leaves every
\* collection as it was: nothing is inserted under that id.
NotFoundMessages ==
    {"Room not found", "Guest not found", "Booking not found", "Staff member not found",
     "Maintenance request not found", "Payment not found"}

C2_UnknownId ==
    [][ (call'.op \in PatchRoutes \cup {"PATCH /api/rooms/:id/status"}
         /\ call'.id \notin DOMAIN Collection(TargetOf(call'.op))) =>
          /\ ret'.threw /\ ret'.message \in NotFoundMessages
          /\ response' = Json(500, Message(ret'.message))
          /\ collections' = collections
          /\ call'.id \notin DOMAIN CollectionAfter(TargetOf(call'.op)) ]_vars

\* a PATCH on a room id that was never handed out was answered 500
C2_Witness ==
    /\ call.op = "PATCH /api/rooms/:id" /\ call.id = NoId
    /\ call.prior = Absent
    /\ response = Json(500, Message("Room not found"))
    /\ getRoom(NoId) = Absent

\* C3 (as claimed): every stored entity's id field is the identifier it is
\* stored under, and no two entities of a collection have the same id field.
C3_IdsNeverChange ==
    \A c \in CollectionNames :
        /\ \A i \in DOMAIN Collection(c) : Get(Collection(c)[i], "id") = i
        /\ \A i, j \in DOMAIN Collection(c) :
              i # j => Get(Collection(c)[i], "id") # Get(Collection(c)[j], "id")

\* the per-entity schema of a route
SchemaOf(op) ==
    CASE TargetOf(op) = "rooms" -> insertRoomSchema
      [] TargetOf(op) = "guests" -> insertGuestSchema
      [] TargetOf(op) = "bookings" -> insertBookingSchema
      [] TargetOf(op) = "staff" -> insertStaffSchema
      [] TargetOf(op) = "maintenanceRequests" -> insertMaintenanceRequestSchema
      [] TargetOf(op) = "payments" -> insertPaymentSchema

\* whether a request body passes the schema: a create body must be complete,
\* an update body may have any of the columns, each of its type
PassesValidation(op, body) ==
    IF op \in PostRoutes THEN Accepts(SchemaOf(op), body) ELSE TypesOk(SchemaOf(op), body)

\* C4 (as claimed): a create or update request whose body fails validation is
\* answered 400 and changes no collection.
C4_ValidatedBeforeStore ==
    [][ (call'.op \in PostRoutes \cup PatchRoutes
         /\ ~PassesValidation(call'.op, call'.body)) =>
          /\ response'.status = 400
          /\ collections' = collections ]_vars

\* C9: booking status transitions are not validated. A PATCH {status: s} on a
\* stored booking is answered 200 and leaves the booking with status s,
\* whatever its status was.
C9_TransitionsUnvalidated ==
    [][ \A s \in BookingStatuses :
          (call'.op = "PATCH /api/bookings/:id" /\ call'.id \in DOMAIN bookings
           /\ call'.body = [status |-> s]) =>
             /\ response'.status = 200
             /\ response'.body.status = s
             /\ bookings'[call'.id].status = s ]_vars

\* a checked_out booking was set back to confirmed
C9_Witness ==
    /\ call.op = "PATCH /api/bookings/:id"
    /\ call.prior # Absent
    /\ Get(call.prior, "status") = "checked_out"
    /\ call.body = [status |-> "confirmed"]
    /\ response.status = 200
    /\ bookings[call.id].status = "confirmed"

(***************************************************************************)
(* Check-in and check-out as two calls (SpecCheckin).                      *)
(***************************************************************************)
BookingRoute == "PATCH /api/bookings/:id"
RoomStatusRoute == "PATCH /api/rooms/:id/status"

\* the log positions of the two requests of one confirmation
IsPair(i, j) ==
    /\ answered[i].route = BookingRoute
    /\ answered[i].mutation \in {"checkIn", "checkOut"}
    /\ answered[j].route = RoomStatusRoute
    /\ answered[j].n = answered[i].n + 1

\* a successful request other than i and j wrote the booking or the room of the pair
OtherWrite(i, j) ==
    \E k \in 1..Len(answered) :
        /\ k # i /\ k # j
        /\ answered[k].status = 200
        /\ \/ answered[k].route = BookingRoute /\ answered[k].id = answered[i].id
           \/ answered[k].route = RoomStatusRoute /\ answered[k].id = answered[j].id

BookingStatusOf(mutation) == IF mutation = "checkIn" THEN "checked_in" ELSE "checked_out"
RoomStatusOf(mutation) == IF mutation = "checkIn" THEN "occupied" ELSE "available"

\* C6: when the booking PATCH and the room-status PATCH of a check-in both
\* succeed and no other write touches that booking or room, the booking is
\* checked_in and the room occupied, in whichever order the two were applied;
\* likewise a check-out ends with the booking checked_out and the room
\* available.
C6_BothCallsSucceed ==
    \A i, j \in 1..Len(answered) :
        (/\ IsPair(i, j)
         /\ answered[i].status = 200 /\ answered[j].status = 200
         /\ ~OtherWrite(i, j)) =>
            /\ bookings[answered[i].id].status = BookingStatusOf(answered[i].mutation)
            /\ rooms[answered[j].id].status = RoomStatusOf(answered[i].mutation)

\* a check-in whose room call was applied first and a check-out whose booking
\* call was applied first have both succeeded
C6_Witness ==
    \E i, j, k, l \in 1..Len(answered) :
        /\ IsPair(i, j) /\ answered[i].mutation = "checkIn" /\ j < i
        /\ IsPair(k, l) /\ answered[k].mutation = "checkOut" /\ k < l
        /\ \A m \in {i, j, k, l} : answered[m].status = 200
        /\ bookings[answered[i].id].status = "checked_in"
        /\ rooms[answered[j].id].status = "occupied"
        /\ bookings[answered[k].id].status = "checked_out"
        /\ rooms[answered[l].id].status = "available"

\* C7: the pair is not atomic and nothing rolls back or repairs. When exactly
\* one of the two calls of a confirmation failed, then as long as no other
\* request writes that booking or room, the successful call's effect stays
\* and the other record stays as it was before the confirmation.
C7_NoRollback ==
    \A i, j \in 1..Len(answered) :
        (IsPair(i, j) /\ ~OtherWrite(i, j)) =>
            LET b == answered[i].id
                r == answered[j].id
                m == answered[i].mutation
            IN /\ (answered[i].status = 200 /\ answered[j].status # 200) =>
                     /\ bookings[b].status = BookingStatusOf(m)
                     /\ r \in DOMAIN rooms => rooms[r].status = sampleRooms(now)[r].status
               /\ (answered[i].status # 200 /\ answered[j].status = 200) =>
                     /\ rooms[r].status = RoomStatusOf(m)
                     /\ bookings[b].status = BookingsOnFile(now)[b].status

\* both inconsistent states at once, with nothing left in flight: one booking
\* is checked_in while its room is still available, and another room is
\* occupied while its booking is still confirmed
C7_Witness ==
    /\ inflight = {}
    /\ \E i, j, k, l \in 1..Len(answered) :
        /\ IsPair(i, j) /\ answered[i].mutation = "checkIn"
        /\ answered[i].status = 200 /\ answered[j].status # 200
        /\ bookings[answered[i].id].status = "checked_in"
        /\ answered[j].id \in DOMAIN rooms
        /\ rooms[answered[j].id].status = "available"
        /\ IsPair(k, l) /\ answered[k].mutation = "checkIn"
        /\ answered[k].status # 200 /\ answered[l].status = 200
        /\ bookings[answered[k].id].status = "confirmed"
        /\ rooms[answered[l].id].status = "occupied"
        /\ \A m \in {i, j, k, l} : answered[m].settled

(***************************************************************************)
(* Concurrent updates of one record (SpecRace).                            *)
(***************************************************************************)
\* the log positions whose partial carries key k
Carrying(k) == {i \in 1..Len(answered) : k \in DOMAIN answered[i].body}

\* request j was sent before request i was answered, and answered after it
Overlap(i, j) == i < j /\ answered[j].sentAt < i

\* C10: concurrent updates of the same stored record all succeed, none is
\* told of a conflict, and the record is the merges applied in the order in
\* which they complete: each key holds the value of the last completed
\* partial that carries it, and the value it had before when none does.
C10_LastWriteWins ==
    /\ \A i \in 1..Len(answered) : answered[i].status = 200
    /\ DOMAIN rooms[1] = DOMAIN sampleRooms(now)[1]
    /\ \A k \in DOMAIN rooms[1] :
          rooms[1][k] = IF Carrying(k) = {}
                        THEN sampleRooms(now)[1][k]
                        ELSE LET last == CHOOSE i \in Carrying(k) :
                                             \A o \in Carrying(k) : o <= i
                             IN answered[last].body[k]

\* two updates with different values for status were on the wire together;
\* the one sent first completed last and its value is the stored one, while
\* the notes written by the other are kept
C10_Witness ==
    /\ inflight = {}
    /\ \E i, j \in 1..Len(answered) :
        /\ Overlap(i, j) /\ j = Len(answered)
        /\ answered[j].n < answered[i].n
        /\ answered[i].body = [status |-> "maintenance", notes |-> "leak"]
        /\ answered[j].body = [status |-> "occupied"]
        /\ answered[i].status = 200 /\ answered[j].status = 200
        /\ rooms[1].status = "occupied"
        /\ rooms[1].notes = "leak"

(***************************************************************************)
(* The read side (SpecRead).                                               *)
(***************************************************************************)
Elements(array) == { array[i] : i \in 1..Len(array) }
Stored(map) == { map[id] : id \in DOMAIN map }
NoRepeats(array) == Len(array) = Cardinality(Elements(array))

\* local midnight of the day the clock is in, and of the day after
LocalMidnightToday ==
    CHOOSE m \in 0..now : m % DayLen = 0 /\ m <= now /\ now < m + DayLen
LocalMidnightTomorrow == LocalMidnightToday + DayLen

\* C11: today's arrivals are exactly the bookings whose checkIn t satisfies
\* localMidnightToday <= t < localMidnightTomorrow, each listed once; the
\* booking status plays no part.
C11_TodaysArrivals ==
    call.op = "getTodaysArrivals" =>
        /\ ~ret.threw
        /\ NoRepeats(ret.value)
        /\ Elements(ret.value) =
             { b \in Stored(bookings) :
                 LocalMidnightToday <= b.checkIn /\ b.checkIn < LocalMidnightTomorrow }

\* a cancelled booking that begins at exactly midnight today is listed, one
\* that began on the last tick of yesterday and one that begins at exactly
\* midnight tomorrow are not
C11_Witness ==
    /\ call.op = "getTodaysArrivals"
    /\ \E b \in Elements(ret.value) :
          b.checkIn = LocalMidnightToday /\ b.status = "cancelled"
    /\ \E b \in Stored(bookings) \ Elements(ret.value) :
          b.checkIn = LocalMidnightToday - 1
    /\ \E b \in Stored(bookings) \ Elements(ret.value) :
          b.checkIn = LocalMidnightTomorrow

\* C12: today's departures are exactly the bookings whose checkOut lies in
\* [localMidnightToday, localMidnightTomorrow); a booking that begins today
\* and ends tomorrow is among today's arrivals and not among the departures.
C12_TodaysDepartures ==
    call.op = "getTodaysDepartures" =>
        /\ ~ret.threw
        /\ NoRepeats(ret.value)
        /\ Elements(ret.value) =
             { b \in Stored(bookings) :
                 LocalMidnightToday <= b.checkOut /\ b.checkOut < LocalMidnightTomorrow }
        /\ \A b \in Stored(bookings) :
             (b.checkIn = LocalMidnightToday /\ b.checkOut = LocalMidnightTomorrow) =>
                 /\ b \notin Elements(ret.value)
                 /\ b \in Elements(getTodaysArrivals)

\* a stay from midnight today to midnight tomorrow is on file and is not among
\* the departures, while a stay that ends at exactly midnight today is
C12_Witness ==
    /\ call.op = "getTodaysDepartures"
    /\ \E b \in Stored(bookings) \ Elements(ret.value) :
          b.checkIn = LocalMidnightToday /\ b.checkOut = LocalMidnightTomorrow
    /\ \E b \in Elements(ret.value) : b.checkOut = LocalMidnightToday

\* C13: getBookingsByDateRange(start, end) returns exactly the bookings with
\* checkIn >= start and checkOut <= end, each listed once: containment, not
\* overlap.
C13_DateRangeContainment ==
    call.op = "getBookingsByDateRange" =>
        /\ ~ret.threw
        /\ NoRepeats(ret.value)
        /\ Elements(ret.value) =
             { b \in Stored(bookings) :
                 b.checkIn >= call.body.checkIn /\ b.checkOut <= call.body.checkOut }

\* a stay that begins at start and ends at end is returned; one that begins
\* inside the range and ends after it, and one that began before start and
\* ends inside it, are not
C13_Witness ==
    /\ call.op = "getBookingsByDateRange"
    /\ \E b \in Elements(ret.value) :
          b.checkIn = call.body.checkIn /\ b.checkOut = call.body.checkOut
    /\ \E b \in Stored(bookings) \ Elements(ret.value) :
          /\ b.checkIn >= call.body.checkIn /\ b.checkIn <= call.body.checkOut
          /\ b.checkOut > call.body.checkOut
    /\ \E b \in Stored(bookings) \ Elements(ret.value) :
          /\ b.checkIn < call.body.checkIn
          /\ b.checkOut >= call.body.checkIn /\ b.checkOut <= call.body.checkOut

\* C17: get(id) is a pure read. getRoom returns the stored room or the absent
\* marker and never throws; GET /api/rooms/:id answers 200 with the room or
\* 404; neither changes any state of the store, and a read that directly
\* follows the same read gets the same answer.
C17_PureRead ==
    [][ /\ call'.op \in {"getRoom", "GET /api/rooms/:id"} =>
            /\ storeVars' = storeVars /\ settingVars' = settingVars
            /\ ~ret'.threw
            /\ ret'.value = IF call'.id \in DOMAIN rooms THEN rooms[call'.id] ELSE Absent
            /\ (call.op = call'.op /\ call.id = call'.id) =>
                  (ret' = ret /\ response' = response)
        /\ call'.op = "GET /api/rooms/:id" =>
            response' = IF call'.id \in DOMAIN rooms
                        THEN Json(200, rooms[call'.id])
                        ELSE Json(404, Message("Room not found")) ]_vars

\* a room created after the sample rooms was read through the route
C17_Witness ==
    /\ call.op = "GET /api/rooms/:id"
    /\ call.id > InitialRooms
    /\ call.id \in DOMAIN rooms
    /\ response = Json(200, rooms[call.id])
    /\ ret = Return(rooms[call.id])

\* what getRooms returns once the step is made
getRoomsAfter == Values(rooms')

\* C18: the listing holds all rooms in the order in which they were created:
\* it starts as the sample rooms in their order, a create appends the new
\* room at the end, an update replaces the room where it stands, and no other
\* call changes the listing.
C18_ListInsertionOrder ==
    [][ LET before == getRooms
            after == getRoomsAfter
        IN CASE call'.op = "getRooms" -> ret' = Return(before) /\ rooms' = rooms
             [] call'.op = "createRoom" -> after = Append(before, ret'.value)
             [] call'.op = "updateRoom" /\ call'.prior # Absent ->
                  \E i \in 1..Len(before) :
                      /\ before[i] = call'.prior
                      /\ after = [before EXCEPT ![i] = ret'.value]
             [] OTHER -> /\ rooms' # rooms => after = before
                         /\ call.op = "none" => before = sampleRooms(now)
      ]_vars

\* the listing was read after a room was created and the first sample room
\* updated: the first room is still first, with its new number, and the
\* created room is last
C18_Witness ==
    /\ call.op = "getRooms"
    /\ Len(ret.value) = InitialRooms + 1
    /\ ret.value[1].id = 1
    /\ ret.value[1].number = "601"
    /\ ret.value[InitialRooms + 1].id = InitialRooms + 1

\* C20: createRoom with a number that a stored room already has succeeds and
\* leaves both rooms stored under distinct ids; getRoomByNumber returns the
\* room with that number that was created first, or the absent marker.
C20_DuplicateNumbers ==
    [][ /\ (call'.op = "createRoom"
            /\ \E id \in DOMAIN rooms : rooms[id].number = call'.body.number) =>
              /\ ~ret'.threw
              /\ ret'.value.id \notin DOMAIN rooms
              /\ DOMAIN rooms' = DOMAIN rooms \cup {ret'.value.id}
              /\ rooms'[ret'.value.id].number = call'.body.number
              /\ \A id \in DOMAIN rooms : rooms'[id] = rooms[id]
        /\ call'.op = "getRoomByNumber" =>
              LET hits == { id \in DOMAIN rooms : rooms[id].number = call'.body.number }
              IN ret' = Return(IF hits = {} THEN Absent
                               ELSE rooms[CHOOSE id \in hits : \A o \in hits : id <= o]) ]_vars

\* two rooms numbered 101 are stored and the lookup returned the sample room
C20_Witness ==
    /\ call.op = "getRoomByNumber"
    /\ call.body.number = "101"
    /\ ret.value = rooms[1]
    /\ \E id \in DOMAIN rooms : id > InitialRooms /\ rooms[id].number = "101"

(***************************************************************************)
(* The dashboard (SpecMetrics).                                            *)
(***************************************************************************)
MetricsRoute == "GET /api/dashboard/metrics"

\* the integer nearest to 100 * occupied / total, a half going up
NearestPercent(occupied, total) ==
    CHOOSE r \in 0..100 :
        /\ 2 * r * total - total <= 200 * occupied
        /\ 200 * occupied < 2 * r * total + total

\* the sum of totalAmount, in cents, over the bookings with the ids in S
RECURSIVE SumCents(_)
SumCents(S) ==
    IF S = {} THEN 0
    ELSE LET id == CHOOSE x \in S : TRUE
         IN bookings[id].totalAmount + SumCents(S \ {id})

BeginToday ==
    { id \in DOMAIN bookings :
        LocalMidnightToday <= bookings[id].checkIn
        /\ bookings[id].checkIn < LocalMidnightTomorrow }

\* an amount in cents written with two decimals
Decimal(cents) ==
    ToString(cents \div 100) \o "." \o
    (IF cents % 100 < 10 THEN "0" ELSE "") \o ToString(cents % 100)

C15_RevenueExact ==
    call.op = MetricsRoute =>
        /\ response.status = 200
        /\ response.body.revenue = Decimal(SumCents(BeginToday))

\* 99.99 and 0.01 begin today, a third booking does not, and the revenue
\* reported is 100.00
C15_Witness ==
    /\ call.op = MetricsRoute
    /\ \E a, b \in BeginToday :
          /\ bookings[a].totalAmount = 9999 /\ bookings[b].totalAmount = 1
          /\ BeginToday = {a, b}
    /\ DOMAIN bookings # BeginToday
    /\ response.body.revenue = "100.00"

(***************************************************************************)
(* Settings (SpecSettings).                                                *)
(***************************************************************************)
SettingsWith(key) == { id \in DOMAIN hotelSettings : hotelSettings[id].key = key }

\* C16: settings are upserted by key. Every completed updateHotelSetting(key,
\* value) leaves exactly one stored setting per key: a key written for the
\* first time gets a new setting under a fresh id, a key written before keeps
\* its setting and its id and takes the new value, and the settings of the
\* other keys are left as they were.
C16_UpsertByKey ==
    [][ Len(awaiting') < Len(awaiting) =>
          LET key == call'.id
              value == call'.body.value
              before == SettingsWith(key)
              after == { id \in DOMAIN hotelSettings' : hotelSettings'[id].key = key }
          IN /\ response'.status = 200
             /\ Cardinality(after) = 1
             /\ \A id \in after :
                   /\ hotelSettings'[id].id = id
                   /\ hotelSettings'[id].value = value
                   /\ response'.body = hotelSettings'[id]
                   /\ IF before = {} THEN id \notin DOMAIN hotelSettings
                                     ELSE id \in before
             /\ DOMAIN hotelSettings' = DOMAIN hotelSettings \cup after
             /\ \A id \in DOMAIN hotelSettings \ before :
                   hotelSettings'[id] = hotelSettings[id]
             /\ collections' = collections ]_vars

\* two keys are stored, and the key written last had another value before and
\* kept its id
C16_Witness ==
    /\ call.op = "PUT /api/settings/:key"
    /\ awaiting = <<>>
    /\ call.prior # Absent
    /\ call.prior.value # call.body.value
    /\ Cardinality(DOMAIN hotelSettings) = 2
    /\ \E id \in DOMAIN hotelSettings :
          /\ hotelSettings[id].key = call.id
          /\ hotelSettings[id].value = call.body.value
          /\ id = call.prior.id

(***************************************************************************)
(* Store-owned timestamps (Spec).                                          *)
(***************************************************************************)
\* the collections whose entities carry createdAt
Timestamped == {"guests", "bookings", "maintenanceRequests", "payments"}

C21_StatusOnly ==
    [][ (call'.op = "PATCH /api/rooms/:id/status" /\ response'.status = 200) =>
          /\ call'.id \in DOMAIN rooms
          /\ rooms'[call'.id].status = Get(call'.body, "status")
          /\ DOMAIN rooms'[call'.id] = DOMAIN rooms[call'.id] \cup {"status"}
          /\ \A k \in DOMAIN rooms[call'.id] \ {"status"} :
                rooms'[call'.id][k] = rooms[call'.id][k]
          /\ \A id \in DOMAIN rooms \ {call'.id} : rooms'[id] = rooms[id]
          /\ DOMAIN rooms' = DOMAIN rooms ]_vars

\* a body that also names a number and an id set the status and left the
\* number and the id of the room alone
C21_Witness ==
    /\ call.op = "PATCH /api/rooms/:id/status"
    /\ response.status = 200
    /\ call.body = [status |-> "occupied", number |-> "999", id |-> 2]
    /\ call.prior.status # "occupied"
    /\ rooms[call.id].status = "occupied"
    /\ rooms[call.id].number = call.prior.number
    /\ rooms[call.id].id = call.prior.id

\* C23 (as claimed): every stored room's status is one of available,
\* occupied, pending, maintenance.
C23_RoomStatusEnum ==
    \A id \in DOMAIN rooms : Get(rooms[id], "status") \in RoomStatuses

\* C22: a PATCH on the id of a stored payment, as the payments page sends it
\* when a status is changed, is answered 200 and merges the body into the
\* stored payment, so that a read made afterwards shows the new status.
C22_PatchPaymentMerges ==
    [][ (call'.op = "PATCH /api/payments/:id" /\ call'.id \in DOMAIN payments) =>
          /\ response'.status = 200
          /\ payments'[call'.id] = Merge(payments[call'.id], call'.body) ]_vars

\* C24: without a Stripe key every payment-intent request is answered 400 with
\* the 'not configured' message and no call to the collaborator is made; with
\* a key, a call the collaborator rejects is answered 500; in both cases no
\* collection changes.
C24_PaymentIntent ==
    [][ call'.op = "POST /api/create-payment-intent" =>
          /\ collections' = collections
          /\ guestCommunications' = guestCommunications
          /\ hotelSettings' = hotelSettings
          /\ stripe = Null =>
                /\ response' = Json(400, Message(NotConfigured))
                /\ paymentIntents' = paymentIntents
          /\ stripe # Null =>
                /\ Len(paymentIntents') = Len(paymentIntents) + 1
                /\ paymentIntents'[Len(paymentIntents')].outcome = "rejected" =>
                      /\ response'.status = 500
                      /\ response'.body = Message(IntentError) ]_vars

\* a payment is stored, no key is configured, and the request was refused
C24_Witness ==
    /\ call.op = "POST /api/create-payment-intent"
    /\ stripe = Null
    /\ payments # EmptyObject
    /\ response.status = 400
    /\ paymentIntents = <<>>


\* the queries by a foreign key, the POST routes of the rows that carry one,
\* and for each the rows, the key and the collection the key refers to
LinkQueries ==
    {"getBookingsByGuest", "getBookingsByRoom",
     "GET /api/payments/booking/:bookingId", "GET /api/communications/guest/:guestId"}
LinkPosts ==
    {"POST /api/bookings", "POST /api/payments", "POST /api/maintenance",
     "POST /api/communications"}
LinkKeys == {"roomId", "guestId", "bookingId"}

Scanned(op) ==
    CASE op \in {"getBookingsByGuest", "getBookingsByRoom"} -> Stored(bookings)
      [] op = "GET /api/payments/booking/:bookingId" -> Stored(payments)
      [] op = "GET /api/communications/guest/:guestId" -> Stored(guestCommunications)

LinkKey(op) ==
    CASE op \in {"getBookingsByGuest", "GET /api/communications/guest/:guestId"} -> "guestId"
      [] op = "getBookingsByRoom" -> "roomId"
      [] op = "GET /api/payments/booking/:bookingId" -> "bookingId"

Referenced(op) ==
    CASE op \in {"getBookingsByGuest", "GET /api/communications/guest/:guestId"} -> guests
      [] op = "getBookingsByRoom" -> rooms
      [] op = "GET /api/payments/booking/:bookingId" -> bookings

LinkSchema(op) ==
    CASE op = "POST /api/bookings" -> insertBookingSchema
      [] op = "POST /api/payments" -> insertPaymentSchema
      [] op = "POST /api/maintenance" -> insertMaintenanceRequestSchema
      [] op = "POST /api/communications" -> insertGuestCommunicationSchema

RowsAfter(op) ==
    CASE op = "POST /api/bookings" -> { bookings'[id] : id \in DOMAIN bookings' }
      [] op = "POST /api/payments" -> { payments'[id] : id \in DOMAIN payments' }
      [] op = "POST /api/maintenance" ->
            { maintenanceRequests'[id] : id \in DOMAIN maintenanceRequests' }
      [] op = "POST /api/communications" ->
            { guestCommunications'[id] : id \in DOMAIN guestCommunications' }

\* C25 as stated: a query by a foreign key, made for an id that names no
\* stored entity of the collection the key refers to, returns the empty list.
C25_EmptyForUnknownId ==
    (call.op \in LinkQueries /\ call.id \notin DOMAIN Referenced(call.op)) =>
        (~ret.threw /\ ret.value = <<>>)

\* C25, amended: a POST of a booking, payment, maintenance request or
\* communication that its schema accepts is answered 201 and the row is stored
\* with the roomId/guestId/bookingId of the body, whether or not they name a
\* stored entity; a query by a foreign key never throws, changes nothing and
\* returns exactly the stored rows whose key equals the id, so the empty list
\* when no row references the id.
C25_ForeignKeys ==
    [][ /\ (call'.op \in LinkPosts /\ Accepts(LinkSchema(call'.op), call'.body)) =>
              /\ response'.status = 201
              /\ response'.body \in RowsAfter(call'.op)
              /\ \A k \in LinkKeys \cap DOMAIN call'.body :
                    response'.body[k] = call'.body[k]
        /\ call'.op \in LinkQueries =>
              /\ ~ret'.threw
              /\ Elements(ret'.value) =
                    { row \in Scanned(call'.op) : Get(row, LinkKey(call'.op)) = call'.id }
              /\ NoRepeats(ret'.value)
              /\ storeVars' = storeVars
              /\ guestCommunications' = guestCommunications ]_vars

\* a communication was stored for a guest id that names no guest, and the
\* query for that id returned it
C25_Witness ==
    /\ call.op = "GET /api/communications/guest/:guestId"
    /\ call.id \notin DOMAIN guests
    /\ Len(ret.value) = 1
    /\ ret.value[1].guestId = call.id
    /\ ret.value[1].bookingId \notin DOMAIN bookings


\* C26: the rooms collection is never empty. The store starts with the five
\* sample rooms and no request removes one, so every dashboard response
\* reports at least five rooms and an occupancy rate that is a number.
C26_RoomsNeverEmpty ==
    /\ Cardinality(DOMAIN rooms) >= InitialRooms
    /\ call.op = MetricsRoute =>
          /\ response.status = 200
          /\ response.body.totalRooms >= InitialRooms
          /\ response.body.occupancyRate # JsonNumber(NaN)

\* the dashboard was asked for after a sixth room was created
C26_Witness ==
    /\ call.op = MetricsRoute
    /\ response.body.totalRooms = InitialRooms + 1
    /\ response.body.occupancyRate = "17"

\* C27: in a dashboard response the bookings summed into today's revenue are
\* the bookings getTodaysArrivals returns, whatever their status, so
\* pendingCheckins is the number of bookings that contribute to the revenue.
C27_RevenueOverArrivals ==
    call.op = MetricsRoute =>
        /\ Elements(todaysBookings) = Elements(getTodaysArrivals)
        /\ response.body.pendingCheckins = Len(todaysBookings)


(***************************************************************************)
(* The check-in page with overlapping flows (SpecFlows, SpecStale).        *)
(***************************************************************************)
\* the requests of the log that belong to a flow, and whether the second
\* confirmation was sent before a request of the first was answered
FlowOf(mutation) == { i \in 1..Len(answered) : answered[i].mutation = mutation }
Overlapping ==
    \E i, j \in 1..Len(answered) :
        /\ answered[i].n \in {1, 2} /\ answered[j].n \in {3, 4}
        /\ answered[j].sentAt < i

\* C28: a check-in and a check-out of the same booking overlap and all four
\* requests are answered 200: the booking and its room end as checked_in and
\* occupied, or as checked_out and available.
C28_FlowsAgree ==
    ( /\ inflight = {}
      /\ Len(answered) = 4
      /\ \A i \in 1..4 : answered[i].status = 200
      /\ FlowOf("checkIn") # {} /\ FlowOf("checkOut") # {}
      /\ Overlapping ) =>
        LET id == answered[CHOOSE i \in FlowOf("checkIn") : TRUE].id
        IN <<bookings[id].status, rooms[bookings[id].roomId].status>> \in
               { <<"checked_in", "occupied">>, <<"checked_out", "available">> }

\* C29: when no PUT /api/settings/:key is suspended any more, at most one
\* stored setting has any given key.
C29_OneSettingPerKey ==
    awaiting = <<>> => \A key \in SettingKeys : Cardinality(SettingsWith(key)) <= 1

\* C30: a booking PATCH sent by the check-in page and answered 200 never
\* takes the stored status from checked_out or cancelled to checked_in, nor
\* from confirmed or cancelled to checked_out.
C30_PageTransitions ==
    [][ ( /\ Len(answered') = Len(answered) + 1
          /\ call'.op = "PATCH /api/bookings/:id"
          /\ response'.status = 200 ) =>
            /\ bookings'[call'.id].status = "checked_in" =>
                  call'.prior.status \notin {"checked_out", "cancelled"}
            /\ bookings'[call'.id].status = "checked_out" =>
                  call'.prior.status \notin {"confirmed", "cancelled"} ]_vars


====
